---- MODULE Spec2Model ----
(***************************************************************************)
(* Token / session lifecycle of the VAUTH two-factor server.               *)
(*                                                                         *)
(* Token store   : FirebaseTokenManager (src/models/User.js 109-462),      *)
(*                 reached through the Token statics (src/models/Token.js) *)
(* Session store : Session statics (src/models/Session.js)                 *)
(* Coordinator   : user routes (src/server.js 178-514), admin routes       *)
(*                 (src/unnamed/part_000), maintenance ticks               *)
(*                 (src/middleware/cleanup.js)                             *)
(*                                                                         *)
(* Every `await` of a handler is a point where other handlers may run, so  *)
(* a handler is one action per stretch of code that ends in a store call:  *)
(* the store call takes effect atomically, and the code after it (clock    *)
(* read, decision, next store call) belongs to the next action.            *)
(***************************************************************************)
EXTENDS Integers, Sequences, FiniteSets, TLC

\* ------------------------------------------------------------------ bounds
\* the clock runs from 0 to MaxTime
MaxTime == 2
\* push keys handed out by the token store, one call at a time
MaxTokens == 1
\* push keys handed out while two calls run concurrently
RaceTokens == 1
\* documents of the sessions collection
MaxSessions == 2
\* expirySeconds of createToken and expiryMinutes of createSession, in
\* clock ticks
ExpirySeconds == 1
ExpiryMinutes == 1
\* entries a failed-attempt list is followed up to
MaxAttempts == 4

\* ------------------------------------------------------------- vocabulary
Procs == {1, 2}
SeqProcs == {1}
Users == {"alice", "bob"}

\* vauth_device_ID of each user (unique per user).  Device ids and secrets
\* are strings, kept as sequences so that device_id + plain_token is a
\* concatenation.
DeviceOf(u) ==
    IF u = "alice" THEN <<1>> ELSE <<1, 2>>

Devices == {DeviceOf(u) : u \in Users}

\* what generateRandomToken can return: strings of one length
Secrets == {<<1>>, <<2>>}

\* what a caller can present as plain_token: the strings of that length
\* and longer ones
Presented == Secrets \cup {<<2, 1>>, <<2, 2>>}

TokenIds == 1..(MaxTokens + RaceTokens)
SessionIds == 1..MaxSessions

NoStr == <<>>
NoTime == -1

\* a location of the tokens tree with no data under it
NoToken ==
    [device_id |-> NoStr, token_hash |-> NoStr, status |-> "ABSENT",
     created_at |-> NoTime, expires_at |-> NoTime, used_at |-> NoTime]

\* an _id the sessions collection has no document for.  Of a session
\* document the model keeps the fields the store's decisions read or
\* write; ip and started_at are only displayed.
NoSession ==
    [username |-> "", device_id |-> NoStr, expires_at |-> NoTime, status |-> "ABSENT"]

NoReq ==
    [op |-> "none", dev |-> NoStr, sec |-> NoStr, id |-> 0, user |-> "", at |-> NoTime]

\* what a call returns; for a route also the HTTP status, the message sent
\* to the caller, the device identifier sent to the caller and the reason
\* carried by the event emitted to the admin room; tracked is the username
\* whose failedAttempts list the request pushed an entry on, and fault
\* records that a store call of the request was rejected; of a maintenance
\* tick n is the number of tokens and m the number of sessions it reports
NoResp ==
    [ok |-> FALSE, reason |-> "none", id |-> 0, n |-> 0, sec |-> NoStr,
     http |-> 0, msg |-> "", dev |-> NoStr, event |-> "none",
     tracked |-> "", fault |-> FALSE, m |-> 0]

\* the browsers that call the admin router, each with its own express
\* session (server.js 70-84)
Browsers == {"console", "visitor"}

\* names a login may carry: the registered users and one that is not
LoginNames == Users \cup {"mallory"}

\* the failedAttempts map before any failure: a username without a key
\* has an empty list
NoAttempts ==
    [u \in LoginNames |-> [n |-> 0, alert |-> FALSE]]

\* the answer of a route's catch block
InternalError ==
    [NoResp EXCEPT !.reason = "INTERNAL", !.http = 500,
                   !.msg = "Internal server error"]

NoPrev ==
    [req |-> NoReq, resp |-> NoResp, at |-> NoTime]

NoSnap ==
    [ids |-> {}, tok |-> [t \in {} |-> NoToken], ses |-> NoSession]

VARIABLES
    now,        \* the clock (Date.now / new Date)
    tokens,     \* Firebase tokens tree: push key -> record
    pushed,     \* number of push keys handed out (keys are chronological)
    timers,     \* pending setTimeout callbacks of setupTokenExpiry
    sessions,   \* Mongo sessions collection: _id -> document
    created,    \* number of session documents created
    cookies,    \* session ids held in req.session.sessionId of some client
    pc,         \* position of each in-flight call
    req,        \* the call of each slot (operation and arguments)
    snap,       \* what the call read from the store at its last await
    resp,       \* what the latest call to return has returned
    consumed,   \* per token: number of verify calls that returned valid
    prev,       \* sequential runs: the call that returned last, and its result
    autoDeleteEnabled,  \* the admin router's auto-delete flag
    isAdmin,    \* per browser: req.session.isAdmin of its express session
    failedAttempts      \* per username: entries of its failed-attempt list, and
                        \* whether the latest entry came with a security alert

vars ==
    <<now, tokens, pushed, timers, sessions, created, cookies,
      pc, req, snap, resp, consumed, prev, autoDeleteEnabled, isAdmin,
      failedAttempts>>

tokenVars == <<tokens, pushed, timers, consumed>>
sessionVars == <<sessions, created, cookies>>

\* ------------------------------------------------------------ digest codec
\* a digest codec that stores what it was given
generateTokenHash_Plain(device_id, plain_token) ==
    plain_token

\* generateTokenHash: sha512 of device_id + plain_token.  The digest is
\* modelled by its preimage, the concatenated string: equal concatenations
\* give equal digests, different ones different digests.
generateTokenHash(device_id, plain_token) ==
    device_id \o plain_token

\* --------------------------------------------------------- store helpers
\* ref.child(id).update({status}): merges the field into the location,
\* creating the location when nothing is there
UpdateStatus(T, id, st) ==
    [T EXCEPT ![id].status = st]

\* ref.child(id).update({status: 'USED', used_at})
UpdateUsed(T, id, at) ==
    [T EXCEPT ![id].status = "USED", ![id].used_at = at]

\* orderByChild('token_hash').equalTo(h).once('value')
QueryByHash(T, h) ==
    {t \in TokenIds : T[t].status # "ABSENT" /\ T[t].token_hash = h}

\* a query that leaves out equalTo(status) and returns every child
QueryByStatus_All(T, st) ==
    {t \in TokenIds : T[t].status # "ABSENT"}

\* orderByChild('status').equalTo(st).once('value')
QueryByStatus(T, st) ==
    {t \in TokenIds : T[t].status = st}

Snapshot(T, ids) ==
    [ids |-> ids, tok |-> [t \in ids |-> T[t]], ses |-> NoSession]

\* the comparison the other way round: expires_at > new Date()
IsPast_Reversed(expires_at, t) ==
    expires_at # NoTime /\ expires_at > t

\* expires_at < new Date(); an absent expires_at parses to an invalid date,
\* which compares false
IsPast(expires_at, t) ==
    expires_at # NoTime /\ expires_at < t

Min(S) == CHOOSE x \in S : \A y \in S : x <= y

\* snapshot.forEach of verifyToken: children come in key order; each child
\* overwrites token and tokenId, a device mismatch resets token to null but
\* does not stop the iteration
RECURSIVE ForEachChild(_, _, _, _)
ForEachChild(s, left, dev, acc) ==
    IF left = {} THEN acc
    ELSE LET k == Min(left)
             child == s.tok[k]
             hit == IF child.device_id # dev
                    THEN [found |-> FALSE, id |-> k, tok |-> NoToken]
                    ELSE [found |-> TRUE, id |-> k, tok |-> child]
         IN ForEachChild(s, left \ {k}, dev, hit)

\* a forEach without the device comparison: the last child is the token
PickToken_AnyDevice(s, dev) ==
    IF s.ids = {} THEN [found |-> FALSE, id |-> 0, tok |-> NoToken]
    ELSE LET k == CHOOSE x \in s.ids : \A y \in s.ids : y <= x
         IN [found |-> TRUE, id |-> k, tok |-> s.tok[k]]

PickToken(s, dev) ==
    ForEachChild(s, s.ids, dev, [found |-> FALSE, id |-> 0, tok |-> NoToken])

\* ------------------------------------------------------------------- Init
Init ==
    /\ now = 0
    /\ tokens = [t \in TokenIds |-> NoToken]
    /\ pushed = 0
    /\ timers = {}
    /\ sessions = [s \in SessionIds |-> NoSession]
    /\ created = 0
    /\ cookies = {}
    /\ pc = [p \in Procs |-> "idle"]
    /\ req = [p \in Procs |-> NoReq]
    /\ snap = [p \in Procs |-> NoSnap]
    /\ resp = NoResp
    /\ consumed = [t \in TokenIds |-> 0]
    /\ prev = NoPrev
    /\ autoDeleteEnabled = FALSE
    /\ isAdmin = [b \in Browsers |-> FALSE]
    /\ failedAttempts = NoAttempts

\* the clock advances
Tick ==
    /\ now < MaxTime
    /\ now' = now + 1
    /\ UNCHANGED <<autoDeleteEnabled, isAdmin, failedAttempts, tokenVars, sessionVars,
                   pc, req, snap, resp>>

\* a call arrives in a free slot
Begin(p, r, at) ==
    /\ pc[p] = "idle"
    /\ pc' = [pc EXCEPT ![p] = at]
    /\ req' = [req EXCEPT ![p] = r]
    /\ resp' = NoResp

\* a call returns: its result is the latest response and the slot is free
Finish(p, r) ==
    /\ pc' = [pc EXCEPT ![p] = "idle"]
    /\ resp' = r
    /\ req' = [req EXCEPT ![p] = NoReq]
    /\ snap' = [snap EXCEPT ![p] = NoSnap]

\* calls in flight that will push a token
Pushing ==
    Cardinality({p \in Procs : pc[p] = "create_set"})

\* ------------------------------------------------------------ token store
\* createToken up to the await of set() (lines 194-211): the secret, the
\* digest and expires_at are fixed before the write is sent
CreateStart(p, dev, secret, cap) ==
    /\ pushed + Pushing < cap
    /\ Begin(p, [NoReq EXCEPT !.op = "issue", !.dev = dev, !.sec = secret,
                              !.at = now + ExpirySeconds], "create_set")
    /\ UNCHANGED <<now, autoDeleteEnabled, isAdmin, failedAttempts, tokenVars, sessionVars, snap>>

\* setupTokenExpiry (lines 233-248): the timer is armed only when the
\* expiry is still ahead
ArmTimer(tm, id, expires_at, t) ==
    IF expires_at - t > 0 THEN tm \cup {[id |-> id, at |-> expires_at]} ELSE tm

\* a createToken that retires the device's earlier tokens
CreateSet_Supersedes(p) ==
    /\ pc[p] = "create_set"
    /\ LET id == pushed + 1
           tokenData == [device_id |-> req[p].dev,
                         token_hash |-> generateTokenHash(req[p].dev, req[p].sec),
                         status |-> "ACTIVE",
                         created_at |-> req[p].at - ExpirySeconds,
                         expires_at |-> req[p].at,
                         used_at |-> NoTime]
       IN /\ tokens' = [t \in TokenIds |->
                          IF t = id THEN tokenData
                          ELSE IF tokens[t].device_id = req[p].dev /\ tokens[t].status = "ACTIVE"
                               THEN [tokens[t] EXCEPT !.status = "EXPIRED"]
                          ELSE tokens[t]]
          /\ pushed' = id
          /\ timers' = ArmTimer(timers, id, req[p].at, now)
          /\ Finish(p, [NoResp EXCEPT !.ok = TRUE, !.reason = "ISSUED", !.id = id,
                                      !.sec = req[p].sec, !.n = req[p].at])
    /\ UNCHANGED <<now, autoDeleteEnabled, isAdmin, failedAttempts, consumed, sessionVars>>

\* createToken from the write on (lines 210-224)
CreateSet(p) ==
    /\ pc[p] = "create_set"
    /\ LET id == pushed + 1
           tokenData == [device_id |-> req[p].dev,
                         token_hash |-> generateTokenHash(req[p].dev, req[p].sec),
                         status |-> "ACTIVE",
                         created_at |-> req[p].at - ExpirySeconds,
                         expires_at |-> req[p].at,
                         used_at |-> NoTime]
       IN /\ tokens' = [tokens EXCEPT ![id] = tokenData]
          /\ pushed' = id
          /\ timers' = ArmTimer(timers, id, req[p].at, now)
          /\ Finish(p, [NoResp EXCEPT !.ok = TRUE, !.reason = "ISSUED", !.id = id,
                                      !.sec = req[p].sec, !.n = req[p].at])
    /\ UNCHANGED <<now, autoDeleteEnabled, isAdmin, failedAttempts, consumed, sessionVars>>

\* the setTimeout callback of setupTokenExpiry (lines 237-246): an
\* unconditional update of the status, whatever the token is by then
TimerFire(tm) ==
    /\ tm \in timers
    /\ now >= tm.at
    /\ tokens' = UpdateStatus(tokens, tm.id, "EXPIRED")
    /\ timers' = timers \ {tm}
    /\ UNCHANGED <<now, autoDeleteEnabled, isAdmin, failedAttempts, pushed, consumed, sessionVars,
                   pc, req, snap, resp>>

\* verifyToken, up to the await of the query (lines 253-259)
VerifyRead(p, dev, secret) ==
    /\ Begin(p, [NoReq EXCEPT !.op = "verify", !.dev = dev, !.sec = secret],
             "verify_check")
    /\ snap' = [snap EXCEPT ![p] =
                  Snapshot(tokens, QueryByHash(tokens, generateTokenHash(dev, secret)))]
    /\ UNCHANGED <<now, autoDeleteEnabled, isAdmin, failedAttempts, tokenVars, sessionVars>>

\* a verifyToken without the status check
VerifyOutcome_NoStatusCheck(s, dev, t) ==
    LET pick == PickToken(s, dev)
    IN IF s.ids = {} \/ ~pick.found
       THEN [write |-> "none", id |-> 0, reason |-> "TOKEN_NOT_FOUND"]
       ELSE IF IsPast(pick.tok.expires_at, t)
            THEN [write |-> "EXPIRED", id |-> pick.id, reason |-> "TOKEN_EXPIRED"]
       ELSE [write |-> "USED", id |-> pick.id, reason |-> "VALID"]

\* the result verifyToken computes from the snapshot (lines 261-316), and
\* the write it makes: "none", "EXPIRED" or "USED"
VerifyOutcome(s, dev, t) ==
    LET pick == PickToken(s, dev)
    IN IF s.ids = {} THEN [write |-> "none", id |-> 0, reason |-> "TOKEN_NOT_FOUND"]
       ELSE IF ~pick.found THEN [write |-> "none", id |-> 0, reason |-> "TOKEN_NOT_FOUND"]
       ELSE IF pick.tok.status # "ACTIVE"
            THEN [write |-> "none", id |-> pick.id, reason |-> "TOKEN_INACTIVE"]
       ELSE IF IsPast(pick.tok.expires_at, t)
            THEN [write |-> "EXPIRED", id |-> pick.id, reason |-> "TOKEN_EXPIRED"]
       ELSE [write |-> "USED", id |-> pick.id, reason |-> "VALID"]

\* a verifyToken that updates every child of the snapshot instead of the
\* one it kept
VerifyCheck_MarksAllChildren(p) ==
    /\ pc[p] = "verify_check"
    /\ LET o == VerifyOutcome(snap[p], req[p].dev, now)
       IN /\ tokens' = [t \in TokenIds |->
                          IF o.write = "none" \/ t \notin snap[p].ids THEN tokens[t]
                          ELSE IF o.write = "EXPIRED"
                               THEN [tokens[t] EXCEPT !.status = "EXPIRED"]
                          ELSE [tokens[t] EXCEPT !.status = "USED", !.used_at = now]]
          /\ consumed' = IF o.write = "USED"
                         THEN [consumed EXCEPT ![o.id] = @ + 1]
                         ELSE consumed
          /\ Finish(p, [NoResp EXCEPT !.ok = (o.write = "USED"), !.reason = o.reason,
                                      !.id = o.id])
    /\ UNCHANGED <<now, autoDeleteEnabled, isAdmin, failedAttempts, pushed, timers, sessionVars>>

\* verifyToken after the query (lines 261-316)
VerifyCheck(p) ==
    /\ pc[p] = "verify_check"
    /\ LET o == VerifyOutcome(snap[p], req[p].dev, now)
       IN /\ tokens' = IF o.write = "EXPIRED" THEN UpdateStatus(tokens, o.id, "EXPIRED")
                       ELSE IF o.write = "USED" THEN UpdateUsed(tokens, o.id, now)
                       ELSE tokens
          /\ consumed' = IF o.write = "USED"
                         THEN [consumed EXCEPT ![o.id] = @ + 1]
                         ELSE consumed
          /\ Finish(p, [NoResp EXCEPT !.ok = (o.write = "USED"), !.reason = o.reason,
                                      !.id = o.id])
    /\ UNCHANGED <<now, autoDeleteEnabled, isAdmin, failedAttempts, pushed, timers, sessionVars>>

\* DELETE /tokens/:tokenId arrives (src/unnamed/part_000 232-235)
DeleteStart(p, id) ==
    /\ Begin(p, [NoReq EXCEPT !.op = "delete", !.id = id], "delete_remove")
    /\ UNCHANGED <<now, autoDeleteEnabled, isAdmin, failedAttempts, tokenVars, sessionVars, snap>>

\* deleteToken (lines 368-377): remove() resolves whether or not there was
\* data at the location
DeleteRemove(p) ==
    /\ pc[p] = "delete_remove"
    /\ tokens' = [tokens EXCEPT ![req[p].id] = NoToken]
    /\ Finish(p, [NoResp EXCEPT !.ok = TRUE, !.reason = "DELETED", !.id = req[p].id])
    /\ UNCHANGED <<now, autoDeleteEnabled, isAdmin, failedAttempts, pushed, timers, consumed, sessionVars>>

\* cleanupExpiredTokens, up to the await of the query (lines 382-385)
SweepRead(p) ==
    /\ Begin(p, [NoReq EXCEPT !.op = "sweepTokens"], "sweep_write")
    /\ snap' = [snap EXCEPT ![p] = Snapshot(tokens, QueryByStatus(tokens, "ACTIVE"))]
    /\ UNCHANGED <<now, autoDeleteEnabled, isAdmin, failedAttempts, tokenVars, sessionVars>>

\* a sweep that takes the tokens whose expiry is still ahead
SweepUpdates_Ahead(s, t) ==
    {k \in s.ids : s.tok[k].expires_at > t}

\* the keys cleanupExpiredTokens puts in `updates` (lines 390-401)
SweepUpdates(s, t) ==
    {k \in s.ids : IsPast(s.tok[k].expires_at, t)}

\* tokensRef.update(updates) (line 404): every key of `updates` is set to
\* the whole record of the snapshot with status EXPIRED
SweepApply(T, s, keys) ==
    [k \in TokenIds |->
        IF k \in keys THEN [s.tok[k] EXCEPT !.status = "EXPIRED"] ELSE T[k]]

\* cleanupExpiredTokens after the query (lines 387-408)
SweepWrite(p) ==
    /\ pc[p] = "sweep_write"
    /\ LET keys == SweepUpdates(snap[p], now)
       IN /\ tokens' = IF Cardinality(keys) > 0
                       THEN SweepApply(tokens, snap[p], keys)
                       ELSE tokens
          /\ Finish(p, [NoResp EXCEPT !.ok = TRUE, !.reason = "SWEPT",
                                      !.n = Cardinality(keys)])
    /\ UNCHANGED <<now, autoDeleteEnabled, isAdmin, failedAttempts, pushed, timers, consumed, sessionVars>>

\* ---------------------------------------------------------- session store
\* calls in flight that will create a session document
Opening ==
    Cardinality({p \in Procs :
        pc[p] \in {"open_create", "rv_find", "rv_check", "rv_demote", "rv_create"}})

\* a createSession without the updateMany
DemoteActive_Skipped(S, user) ==
    S

\* updateMany({username, status: 'ACTIVE'}, {$set: {status: 'EXPIRED'}})
DemoteActive(S, user) ==
    [s \in SessionIds |->
        IF S[s].username = user /\ S[s].status = "ACTIVE"
        THEN [S[s] EXCEPT !.status = "EXPIRED"]
        ELSE S[s]]

\* createSession up to the await of updateMany (Session.js 42-49):
\* expires_at is fixed, then the user's ACTIVE sessions are demoted
OpenDemote(p, user) ==
    /\ created + Opening < MaxSessions
    /\ Begin(p, [NoReq EXCEPT !.op = "open", !.user = user, !.dev = DeviceOf(user),
                              !.at = now + ExpiryMinutes], "open_create")
    /\ sessions' = DemoteActive(sessions, user)
    /\ UNCHANGED <<now, autoDeleteEnabled, isAdmin, failedAttempts, tokenVars, created, cookies, snap>>

\* createSession from create() on (Session.js 51-56), and the session id
\* stored in the caller's express session (server.js 317-319)
OpenCreate(p) ==
    /\ pc[p] = "open_create"
    /\ LET id == created + 1
           doc == [username |-> req[p].user,
                   device_id |-> req[p].dev,
                   expires_at |-> req[p].at,
                   status |-> "ACTIVE"]
       IN /\ sessions' = [sessions EXCEPT ![id] = doc]
          /\ created' = id
          /\ cookies' = cookies \cup {id}
          /\ Finish(p, [NoResp EXCEPT !.ok = TRUE, !.reason = "OPENED", !.id = id])
    /\ UNCHANGED <<now, autoDeleteEnabled, isAdmin, failedAttempts, tokenVars>>

\* document.save() after `status = st`: $set of the status on that _id
SaveStatus(S, id, st) ==
    [S EXCEPT ![id].status = st]

\* validateSession up to the await of findById (Session.js 60-61)
ValidateRead(p, sid) ==
    /\ Begin(p, [NoReq EXCEPT !.op = "validate", !.id = sid], "validate_check")
    /\ snap' = [snap EXCEPT ![p] = [NoSnap EXCEPT !.ses = sessions[sid]]]
    /\ UNCHANGED <<now, autoDeleteEnabled, isAdmin, failedAttempts, tokenVars, sessionVars>>

\* the timeRemaining virtual (Session.js 114-119)
SessionTimeRemaining(doc, t) ==
    IF doc.status # "ACTIVE" THEN 0
    ELSE IF doc.expires_at - t > 0 THEN doc.expires_at - t ELSE 0

\* a validateSession that trusts the status and never looks at expires_at
ValidateOutcome_NoDeadline(doc, t) ==
    IF doc.status = "ABSENT" THEN "SESSION_NOT_FOUND"
    ELSE IF doc.status # "ACTIVE" THEN "SESSION_INACTIVE"
    ELSE "VALID"

\* what validateSession answers for the document it read (Session.js 62-77)
ValidateOutcome(doc, t) ==
    IF doc.status = "ABSENT" THEN "SESSION_NOT_FOUND"
    ELSE IF doc.status # "ACTIVE" THEN "SESSION_INACTIVE"
    ELSE IF doc.expires_at < t THEN "SESSION_EXPIRED"
    ELSE "VALID"

\* validateSession after findById (Session.js 62-77); an invalid answer
\* makes /session-status destroy the caller's express session
\* (server.js 411-413)
ValidateCheck(p) ==
    /\ pc[p] = "validate_check"
    /\ LET o == ValidateOutcome(snap[p].ses, now)
       IN /\ sessions' = IF o = "SESSION_EXPIRED"
                         THEN SaveStatus(sessions, req[p].id, "EXPIRED")
                         ELSE sessions
          /\ cookies' = IF o = "VALID" THEN cookies ELSE cookies \ {req[p].id}
          /\ Finish(p, [NoResp EXCEPT !.ok = (o = "VALID"), !.reason = o,
                                      !.id = req[p].id,
                                      !.n = IF o = "VALID"
                                            THEN SessionTimeRemaining(snap[p].ses, now)
                                            ELSE 0])
    /\ UNCHANGED <<now, autoDeleteEnabled, isAdmin, failedAttempts, tokenVars, created>>

\* forceLogout up to the await of findById (Session.js 81-82)
ForceLogoutRead(p, sid) ==
    /\ Begin(p, [NoReq EXCEPT !.op = "forceLogout", !.id = sid], "force_save")
    /\ snap' = [snap EXCEPT ![p] = [NoSnap EXCEPT !.ses = sessions[sid]]]
    /\ UNCHANGED <<now, autoDeleteEnabled, isAdmin, failedAttempts, tokenVars, sessionVars>>

\* a forceLogout that only checks that the session exists
MayForce_AnyStatus(doc) ==
    doc.status # "ABSENT"

\* `session && session.status === 'ACTIVE'` (Session.js 83)
MayForce(doc) ==
    doc.status # "ABSENT" /\ doc.status = "ACTIVE"

\* forceLogout after findById (Session.js 83-88) and the answer of the admin
\* route (part_000 336-351): 404 when forceLogout returned false, otherwise
\* the event is emitted and then 200 is sent; pub is whether the emit
\* returned or threw
ForceLogoutSave(p, pub) ==
    /\ pc[p] = "force_save"
    /\ sessions' = IF MayForce(snap[p].ses)
                   THEN SaveStatus(sessions, req[p].id, "FORCED_LOGOUT")
                   ELSE sessions
    /\ Finish(p, IF ~MayForce(snap[p].ses)
                 THEN [NoResp EXCEPT !.reason = "FORCE", !.id = req[p].id,
                                     !.http = 404,
                                     !.msg = "Session not found or already inactive"]
                 ELSE IF ~pub THEN InternalError
                 ELSE [NoResp EXCEPT !.ok = TRUE, !.reason = "FORCE", !.id = req[p].id,
                                     !.http = 200,
                                     !.msg = "Session force logout successful",
                                     !.event = "session-force-logout"])
    /\ UNCHANGED <<now, autoDeleteEnabled, isAdmin, failedAttempts, tokenVars, created, cookies>>

\* POST /logout arrives with an express session that holds a session id
\* (server.js 358-360)
LogoutStart(p, sid) ==
    /\ sid \in cookies
    /\ Begin(p, [NoReq EXCEPT !.op = "logout", !.id = sid], "logout_update")
    /\ UNCHANGED <<now, autoDeleteEnabled, isAdmin, failedAttempts, tokenVars, sessionVars, snap>>

\* a logout that ends the session the way the admin route does
FindByIdAndUpdate_AsForced(S, id, st) ==
    IF S[id].status = "ABSENT" THEN S ELSE [S EXCEPT ![id].status = "FORCED_LOGOUT"]

\* findByIdAndUpdate(sessionId, {status: 'EXPIRED'})
FindByIdAndUpdate(S, id, st) ==
    IF S[id].status = "ABSENT" THEN S ELSE [S EXCEPT ![id].status = st]

\* POST /logout from the update on (server.js 361-384): the status is set
\* whatever it was, the event is emitted, then the express session is
\* destroyed; pub is whether the emit returned or threw (a throw goes to
\* the catch block, past the destroy)
LogoutUpdate(p, pub) ==
    /\ pc[p] = "logout_update"
    /\ sessions' = FindByIdAndUpdate(sessions, req[p].id, "EXPIRED")
    /\ cookies' = IF pub THEN cookies \ {req[p].id} ELSE cookies
    /\ Finish(p, IF ~pub THEN InternalError
                 ELSE [NoResp EXCEPT !.ok = TRUE, !.reason = "LOGGED_OUT",
                                     !.id = req[p].id, !.http = 200,
                                     !.msg = "Logged out successfully",
                                     !.event = "user-logout"])
    /\ UNCHANGED <<now, autoDeleteEnabled, isAdmin, failedAttempts, tokenVars, created>>

\* cleanupExpiredSessions is called (Session.js 92-97): the filter carries
\* the time of the call
SweepSessionsStart(p) ==
    /\ Begin(p, [NoReq EXCEPT !.op = "sweepSessions", !.at = now], "sweep_sessions")
    /\ UNCHANGED <<now, autoDeleteEnabled, isAdmin, failedAttempts, tokenVars, sessionVars, snap>>

\* the documents matched by {status: 'ACTIVE', expires_at: {$lt: t}}
ExpiredSessions(S, t) ==
    {s \in SessionIds : S[s].status = "ACTIVE" /\ S[s].expires_at < t}

\* cleanupExpiredSessions: the updateMany and its modifiedCount
\* (Session.js 93-102)
SweepSessions(p) ==
    /\ pc[p] = "sweep_sessions"
    /\ LET hit == ExpiredSessions(sessions, req[p].at)
       IN /\ sessions' = [s \in SessionIds |->
                            IF s \in hit THEN [sessions[s] EXCEPT !.status = "EXPIRED"]
                            ELSE sessions[s]]
          /\ Finish(p, [NoResp EXCEPT !.ok = TRUE, !.reason = "SWEPT",
                                      !.n = Cardinality(hit)])
    /\ UNCHANGED <<now, autoDeleteEnabled, isAdmin, failedAttempts, tokenVars, created, cookies>>

\* ------------------------------------------------------------ user routes
\* device identifiers a verify-token request may carry: the registered
\* devices and one that is not
RouteDevices == Devices \cup {<<2>>}

\* the password each user registered with, and the passwords presented
PasswordOf(u) == <<1>>

Passwords == {<<1>>, <<2>>}

\* user.verifyPassword: bcrypt.compare of the presented password with the
\* stored hash
verifyPassword(u, password) ==
    password = PasswordOf(u)

\* a lookup that answers with every user, whatever the device
UsersOfDevice_Any(dev) ==
    Users

\* User.findOne({ vauth_device_ID: device_id }) (server.js 285)
UsersOfDevice(dev) ==
    {u \in Users : DeviceOf(u) = dev}

\* POST /login up to the await of User.findOne (server.js 196-210)
LoginFind(p, username, password) ==
    /\ Begin(p, [NoReq EXCEPT !.op = "login", !.user = username, !.sec = password],
             "login_check")
    /\ UNCHANGED <<now, autoDeleteEnabled, isAdmin, failedAttempts, tokenVars, sessionVars, snap>>

\* what POST /login answers (server.js 212-249); pub is whether the emit
\* returned or threw
LoginResponse(username, password, pub) ==
    IF ~pub THEN InternalError
    ELSE IF username \notin Users
         THEN [NoResp EXCEPT !.http = 401, !.msg = "User not exists",
                             !.reason = "USER_NOT_FOUND", !.event = "USER_NOT_FOUND",
                             !.tracked = username]
    ELSE IF ~verifyPassword(username, password)
         THEN [NoResp EXCEPT !.http = 401, !.msg = "Invalid credentials",
                             !.reason = "INVALID_PASSWORD", !.event = "INVALID_PASSWORD",
                             !.tracked = username]
    ELSE [NoResp EXCEPT !.ok = TRUE, !.http = 200, !.msg = "Login successful",
                        !.reason = "LOGIN", !.dev = DeviceOf(username),
                        !.event = "user-login-attempt"]

\* POST /login after User.findOne and verifyPassword (server.js 212-249):
\* no store is written
LoginCheck(p, pub) ==
    /\ pc[p] = "login_check"
    /\ Finish(p, LoginResponse(req[p].user, req[p].sec, pub))
    /\ UNCHANGED <<now, autoDeleteEnabled, isAdmin, tokenVars, sessionVars>>

\* the message POST /verify-token sends for a verifyToken that was not
\* valid (server.js 297-303)
TokenFailureMessage(reason) ==
    IF reason = "TOKEN_EXPIRED" THEN "Token expired"
    ELSE IF reason = "TOKEN_NOT_FOUND" THEN "Token invalid"
    ELSE "Invalid token"

\* a route that goes on whenever verifyToken found a token
TokenResultValid_FoundIsEnough(o) ==
    o.reason # "TOKEN_NOT_FOUND"

\* tokenResult.valid (server.js 297)
TokenResultValid(o) ==
    o.reason = "VALID"

\* the whitespace character of the strings a request body may carry
Space == 0

\* the length of a token: generateRandomToken draws 6 characters and the
\* validator asks for 6; the model's secrets have one
TokenLength == 1

RECURSIVE TrimLeft(_)
TrimLeft(s) ==
    IF s # <<>> /\ Head(s) = Space THEN TrimLeft(Tail(s)) ELSE s

RECURSIVE TrimRight(_)
TrimRight(s) ==
    IF s # <<>> /\ s[Len(s)] = Space THEN TrimRight(SubSeq(s, 1, Len(s) - 1)) ELSE s

\* the sanitizer .trim() of express-validator: whitespace is cut from both
\* ends of the field
Trim(s) ==
    TrimRight(TrimLeft(s))

\* device identifiers and tokens a request body may carry: well-formed,
\* empty, blank, too long, and well-formed with whitespace around
InputDevices == {DeviceOf("alice"), <<>>, <<Space>>}

InputTokens == Secrets \cup {<<>>, <<2, 1>>, <<1, Space>>}

\* POST /verify-token arrives with its body (server.js 266-269)
RvArrive(p, dev, token) ==
    /\ created + Opening < MaxSessions
    /\ Begin(p, [NoReq EXCEPT !.op = "verifyRoute", !.dev = dev, !.sec = token],
             "rv_validate")
    /\ UNCHANGED <<now, autoDeleteEnabled, isAdmin, failedAttempts, tokenVars, sessionVars, snap>>

\* a validator chain that checks the device identifier only
RvValidate_NoLengthCheck(p) ==
    /\ pc[p] = "rv_validate"
    /\ IF Len(Trim(req[p].dev)) >= 1
       THEN /\ pc' = [pc EXCEPT ![p] = "rv_find"]
            /\ req' = [req EXCEPT ![p].dev = Trim(req[p].dev), ![p].sec = Trim(req[p].sec)]
            /\ UNCHANGED <<resp, snap>>
       ELSE Finish(p, [NoResp EXCEPT !.http = 400, !.msg = "Validation failed",
                                     !.reason = "VALIDATION"])
    /\ UNCHANGED <<now, autoDeleteEnabled, isAdmin, failedAttempts, tokenVars, sessionVars>>

\* the validators and the head of the handler (server.js 267-285): both
\* fields are trimmed, then device_id must have at least one character and
\* token exactly six; a body that fails is answered 400, for one that
\* passes User.findOne is called with the trimmed device_id
RvValidate(p) ==
    /\ pc[p] = "rv_validate"
    /\ IF Len(Trim(req[p].dev)) >= 1 /\ Len(Trim(req[p].sec)) = TokenLength
       THEN /\ pc' = [pc EXCEPT ![p] = "rv_find"]
            /\ req' = [req EXCEPT ![p].dev = Trim(req[p].dev), ![p].sec = Trim(req[p].sec)]
            /\ UNCHANGED <<resp, snap>>
       ELSE Finish(p, [NoResp EXCEPT !.http = 400, !.msg = "Validation failed",
                                     !.reason = "VALIDATION"])
    /\ UNCHANGED <<now, autoDeleteEnabled, isAdmin, failedAttempts, tokenVars, sessionVars>>

\* POST /verify-token with a well-formed body, up to the await of
\* User.findOne (server.js 270-285)
RvStart(p, dev, secret) ==
    /\ created + Opening < MaxSessions
    /\ Begin(p, [NoReq EXCEPT !.op = "verifyRoute", !.dev = dev, !.sec = secret],
             "rv_find")
    /\ UNCHANGED <<now, autoDeleteEnabled, isAdmin, failedAttempts, tokenVars, sessionVars, snap>>

\* a route that goes on to verifyToken whoever the device belongs to
RvFind_NoDeviceCheck(p, pub) ==
    /\ pc[p] = "rv_find"
    /\ pc' = [pc EXCEPT ![p] = "rv_check"]
    /\ req' = [req EXCEPT ![p].user =
                  IF UsersOfDevice(req[p].dev) = {} THEN ""
                  ELSE CHOOSE u \in UsersOfDevice(req[p].dev) : TRUE]
    /\ snap' = [snap EXCEPT ![p] =
           Snapshot(tokens, QueryByHash(tokens,
                        generateTokenHash(req[p].dev, req[p].sec)))]
    /\ UNCHANGED resp
    /\ UNCHANGED <<now, autoDeleteEnabled, isAdmin, failedAttempts, tokenVars, sessionVars>>

\* POST /verify-token after User.findOne (server.js 286-295): an unknown
\* device is answered at once, otherwise verifyToken runs its query
RvFind(p, pub) ==
    /\ pc[p] = "rv_find"
    /\ IF UsersOfDevice(req[p].dev) = {}
       THEN Finish(p, IF ~pub THEN InternalError
                      ELSE [NoResp EXCEPT !.http = 401, !.msg = "Invalid device",
                                          !.reason = "DEVICE_NOT_FOUND",
                                          !.event = "DEVICE_NOT_FOUND"])
       ELSE /\ pc' = [pc EXCEPT ![p] = "rv_check"]
            /\ req' = [req EXCEPT ![p].user = CHOOSE u \in UsersOfDevice(req[p].dev) : TRUE]
            /\ snap' = [snap EXCEPT ![p] =
                   Snapshot(tokens, QueryByHash(tokens,
                                generateTokenHash(req[p].dev, req[p].sec)))]
            /\ UNCHANGED resp
    /\ UNCHANGED <<now, autoDeleteEnabled, isAdmin, failedAttempts, tokenVars, sessionVars>>

\* POST /verify-token after the token query (User.js 261-316, server.js
\* 297-314): a verifyToken that is not valid is answered 401 and no session
\* call is made; a valid one has set the token USED and createSession fixes
\* expires_at
RvCheck(p, pub) ==
    /\ pc[p] = "rv_check"
    /\ LET o == VerifyOutcome(snap[p], req[p].dev, now)
       IN /\ tokens' = IF o.write = "EXPIRED" THEN UpdateStatus(tokens, o.id, "EXPIRED")
                       ELSE IF o.write = "USED" THEN UpdateUsed(tokens, o.id, now)
                       ELSE tokens
          /\ consumed' = IF o.write = "USED"
                         THEN [consumed EXCEPT ![o.id] = @ + 1]
                         ELSE consumed
          /\ IF TokenResultValid(o)
             THEN /\ pc' = [pc EXCEPT ![p] = "rv_demote"]
                  /\ req' = [req EXCEPT ![p].id = o.id, ![p].at = now + ExpiryMinutes]
                  /\ UNCHANGED <<resp, snap>>
             ELSE Finish(p, IF ~pub THEN InternalError
                            ELSE [NoResp EXCEPT !.http = 401,
                                                !.msg = TokenFailureMessage(o.reason),
                                                !.reason = o.reason,
                                                !.event = o.reason,
                                                !.tracked = req[p].user])
    /\ UNCHANGED <<now, autoDeleteEnabled, isAdmin, pushed, timers, sessionVars>>

\* createSession's updateMany inside POST /verify-token (Session.js 46-49)
RvDemote(p) ==
    /\ pc[p] = "rv_demote"
    /\ sessions' = DemoteActive(sessions, req[p].user)
    /\ pc' = [pc EXCEPT ![p] = "rv_create"]
    /\ UNCHANGED <<now, autoDeleteEnabled, isAdmin, failedAttempts, tokenVars, created, cookies,
                   req, snap, resp>>

\* createSession's create and the rest of POST /verify-token (Session.js
\* 51-56, server.js 316-342): the session id goes into the express session,
\* both events are emitted, then the session id is sent to the caller
RvCreate(p, pub) ==
    /\ pc[p] = "rv_create"
    /\ sessions' = [sessions EXCEPT ![created + 1] =
           [username |-> req[p].user, device_id |-> req[p].dev,
            expires_at |-> req[p].at, status |-> "ACTIVE"]]
    /\ created' = created + 1
    /\ cookies' = cookies \cup {created + 1}
    /\ Finish(p, IF ~pub THEN InternalError
                 ELSE [NoResp EXCEPT !.ok = TRUE, !.http = 200,
                                     !.msg = "Token verified successfully",
                                     !.reason = "VALID", !.id = created + 1,
                                     !.event = "session-created"])
    /\ UNCHANGED <<now, autoDeleteEnabled, isAdmin, failedAttempts, tokenVars>>

\* the length of the list from which a failure is announced to the admin
\* room (server.js 454, 492)
AlertThreshold == 3

\* a tracker that announces only beyond the threshold
trackFailure_AlertBeyond(F, username) ==
    LET n == F[username].n + 1
    IN [F EXCEPT ![username] = [n |-> n, alert |-> n > AlertThreshold]]

\* trackFailedAttempt (server.js 441-461) and trackTokenFailure with a
\* username (server.js 479-500): an entry is pushed on the user's list and
\* a security-alert is emitted when the list then has 3 entries or more
trackFailure(F, username) ==
    LET n == F[username].n + 1
    IN [F EXCEPT ![username] = [n |-> n, alert |-> n >= AlertThreshold]]

\* failedAttempts.delete(username) (server.js 237)
clearFailures(F, username) ==
    [F EXCEPT ![username] = [n |-> 0, alert |-> FALSE]]

\* what a request of slot p does to failedAttempts in the step in which it
\* is answered, every emit returning: a failed login (server.js 215, 228)
\* and a failed token verification of a known user (server.js 305) push an
\* entry, a successful login deletes the key (server.js 237)
Tracked(p) ==
    failedAttempts' =
        IF pc'[p] # "idle" THEN failedAttempts
        ELSE IF resp'.tracked # "" THEN trackFailure(failedAttempts, resp'.tracked)
        ELSE IF req[p].op = "login" /\ resp'.ok
             THEN clearFailures(failedAttempts, req[p].user)
        ELSE failedAttempts

\* failedAttempts is not followed: what a request pushed is read from the
\* tracked field of its response
Untracked ==
    UNCHANGED failedAttempts

\* --------------------------------------------- verify-token, store rejects
\* the answer of a route's catch block after a store call was rejected
StoreError ==
    [InternalError EXCEPT !.fault = TRUE]

\* what POST /verify-token answers when verifyToken ran into its catch
\* block (User.js 318-321, server.js 297-310): the result is
\* { valid: false, reason: 'VERIFICATION_ERROR' }, which the route treats as
\* any other invalid token
VerificationErrorResponse(username) ==
    [NoResp EXCEPT !.http = 401, !.msg = TokenFailureMessage("VERIFICATION_ERROR"),
                   !.reason = "VERIFICATION_ERROR", !.event = "VERIFICATION_ERROR",
                   !.tracked = username, !.fault = TRUE]

\* User.findOne rejects (server.js 285, 344-350)
RvFindFails(p) ==
    /\ pc[p] = "rv_find"
    /\ Finish(p, StoreError)
    /\ UNCHANGED <<now, autoDeleteEnabled, isAdmin, failedAttempts, tokenVars, sessionVars>>

\* the token query of verifyToken rejects (User.js 256-259, 318-321)
RvQueryFails(p) ==
    /\ pc[p] = "rv_find"
    /\ UsersOfDevice(req[p].dev) # {}
    /\ Finish(p, VerificationErrorResponse(CHOOSE u \in UsersOfDevice(req[p].dev) : TRUE))
    /\ UNCHANGED <<now, autoDeleteEnabled, isAdmin, tokenVars, sessionVars>>

\* the status update of verifyToken rejects (User.js 293-295 or 300-303,
\* 318-321): nothing is written
RvUpdateFails(p) ==
    /\ pc[p] = "rv_check"
    /\ VerifyOutcome(snap[p], req[p].dev, now).write # "none"
    /\ Finish(p, VerificationErrorResponse(req[p].user))
    /\ UNCHANGED <<now, autoDeleteEnabled, isAdmin, tokenVars, sessionVars>>

\* createSession's updateMany rejects (Session.js 46-49, server.js 344-350)
RvDemoteFails(p) ==
    /\ pc[p] = "rv_demote"
    /\ Finish(p, StoreError)
    /\ UNCHANGED <<now, autoDeleteEnabled, isAdmin, failedAttempts, tokenVars, sessionVars>>

\* createSession's create rejects (Session.js 51-56, server.js 344-350)
RvCreateFails(p) ==
    /\ pc[p] = "rv_create"
    /\ Finish(p, StoreError)
    /\ UNCHANGED <<now, autoDeleteEnabled, isAdmin, failedAttempts, tokenVars, sessionVars>>

\* ------------------------------------------------------------ maintenance
\* deleteExpiredTokens up to the await of its query (User.js 417-421)
PurgeQuery(p, op) ==
    /\ Begin(p, [NoReq EXCEPT !.op = op], "purge_write")
    /\ snap' = [snap EXCEPT ![p] = Snapshot(tokens, QueryByStatus(tokens, "EXPIRED"))]

\* a purge that takes every token that is no longer ACTIVE
PurgeKeys_NotActive(s) ==
    {k \in TokenIds : tokens[k].status \in {"USED", "EXPIRED"}}

\* the keys deleteExpiredTokens sets to null (User.js 426-429): every child
\* of the snapshot
PurgeKeys(s) ==
    s.ids

\* deleteExpiredTokens after the query (User.js 423-436), returned through
\* autoDeleteExpiredTokens (cleanup.js 31-37)
PurgeWrite(p) ==
    /\ pc[p] = "purge_write"
    /\ LET keys == PurgeKeys(snap[p])
       IN /\ tokens' = IF Cardinality(keys) > 0
                       THEN [k \in TokenIds |-> IF k \in keys THEN NoToken ELSE tokens[k]]
                       ELSE tokens
          /\ Finish(p, [NoResp EXCEPT !.ok = TRUE, !.reason = "PURGED",
                                      !.n = Cardinality(keys)])
    /\ UNCHANGED <<now, autoDeleteEnabled, isAdmin, failedAttempts, pushed, timers, consumed, sessionVars>>

\* PATCH /auto-delete-expired (src/unnamed/part_000 262-268): the flag is
\* flipped, and when it is now on deleteExpiredTokens is called
ToggleStart(p) ==
    /\ autoDeleteEnabled' = ~autoDeleteEnabled
    /\ IF autoDeleteEnabled'
       THEN PurgeQuery(p, "toggle")
       ELSE /\ Begin(p, [NoReq EXCEPT !.op = "toggle"], "toggle_reply")
            /\ UNCHANGED snap
    /\ UNCHANGED <<now, isAdmin, failedAttempts, tokenVars, sessionVars>>

\* the answer of a toggle that switched auto-delete off (part_000 275-281)
ToggleReply(p) ==
    /\ pc[p] = "toggle_reply"
    /\ Finish(p, [NoResp EXCEPT !.ok = TRUE, !.reason = "DISABLED"])
    /\ UNCHANGED <<now, autoDeleteEnabled, isAdmin, failedAttempts, tokenVars, sessionVars>>

\* a purge timer that does not look at the flag
PurgeTickStart_IgnoresFlag(p) ==
    /\ PurgeQuery(p, "purgeTick")
    /\ UNCHANGED <<now, autoDeleteEnabled, isAdmin, failedAttempts, tokenVars, sessionVars>>

\* the 10-minute interval callback (part_000 481-489): it calls
\* autoDeleteExpiredTokens only while the flag is on
PurgeTickStart(p) ==
    /\ IF autoDeleteEnabled
       THEN PurgeQuery(p, "purgeTick")
       ELSE /\ Begin(p, [NoReq EXCEPT !.op = "purgeTick"], "purge_skip")
            /\ UNCHANGED snap
    /\ UNCHANGED <<now, autoDeleteEnabled, isAdmin, failedAttempts, tokenVars, sessionVars>>

\* the callback returns without a store call when the flag is off
PurgeSkip(p) ==
    /\ pc[p] = "purge_skip"
    /\ Finish(p, [NoResp EXCEPT !.reason = "SKIPPED"])
    /\ UNCHANGED <<now, autoDeleteEnabled, isAdmin, failedAttempts, tokenVars, sessionVars>>

\* cleanupExpiredData, the 5-minute interval callback, up to the await of
\* the token query (cleanup.js 7-12, User.js 382-385)
CleanupStart(p) ==
    /\ Begin(p, [NoReq EXCEPT !.op = "cleanup"], "cl_tokens")
    /\ snap' = [snap EXCEPT ![p] = Snapshot(tokens, QueryByStatus(tokens, "ACTIVE"))]
    /\ UNCHANGED <<now, autoDeleteEnabled, isAdmin, failedAttempts, tokenVars, sessionVars>>

\* cleanupExpiredTokens returns its count, which is logged when positive,
\* and cleanupExpiredSessions is called (cleanup.js 12-18)
CleanupTokens(p) ==
    /\ pc[p] = "cl_tokens"
    /\ LET keys == SweepUpdates(snap[p], now)
       IN /\ tokens' = IF Cardinality(keys) > 0
                       THEN SweepApply(tokens, snap[p], keys)
                       ELSE tokens
          /\ resp' = [NoResp EXCEPT !.n = Cardinality(keys)]
    /\ pc' = [pc EXCEPT ![p] = "cl_sessions"]
    /\ req' = [req EXCEPT ![p].at = now]
    /\ snap' = [snap EXCEPT ![p] = NoSnap]
    /\ UNCHANGED <<now, autoDeleteEnabled, isAdmin, failedAttempts, pushed, timers, consumed, sessionVars>>

\* a cleanupExpiredTokens without its own catch: the rejection reaches the
\* catch of cleanupExpiredData and the tick ends there
CleanupTokensFails_Aborts(p) ==
    /\ pc[p] = "cl_tokens"
    /\ Finish(p, [NoResp EXCEPT !.reason = "CLEANUP_ERROR", !.fault = TRUE])
    /\ UNCHANGED <<now, autoDeleteEnabled, isAdmin, failedAttempts, tokenVars, sessionVars>>

\* the token query or update is rejected: the catch of cleanupExpiredTokens
\* returns 0 (User.js 409-412) and cleanupExpiredData goes on
CleanupTokensFails(p) ==
    /\ pc[p] = "cl_tokens"
    /\ resp' = [NoResp EXCEPT !.n = 0, !.fault = TRUE]
    /\ pc' = [pc EXCEPT ![p] = "cl_sessions"]
    /\ req' = [req EXCEPT ![p].at = now]
    /\ snap' = [snap EXCEPT ![p] = NoSnap]
    /\ UNCHANGED <<now, autoDeleteEnabled, isAdmin, failedAttempts, tokenVars, sessionVars>>

\* cleanupExpiredSessions resolves and the callback returns
\* (cleanup.js 18-22, Session.js 92-102)
CleanupSessions(p) ==
    /\ pc[p] = "cl_sessions"
    /\ LET hit == ExpiredSessions(sessions, req[p].at)
       IN /\ sessions' = [s \in SessionIds |->
                            IF s \in hit THEN [sessions[s] EXCEPT !.status = "EXPIRED"]
                            ELSE sessions[s]]
          /\ Finish(p, [resp EXCEPT !.ok = TRUE, !.reason = "CLEANUP_DONE",
                                    !.m = Cardinality(hit)])
    /\ UNCHANGED <<now, autoDeleteEnabled, isAdmin, failedAttempts, tokenVars, created, cookies>>

\* a callback without its try/catch: the rejection leaves the callback and
\* takes the process down
CleanupSessionsFails_Raises(p) ==
    /\ pc[p] = "cl_sessions"
    /\ pc' = [pc EXCEPT ![p] = "crashed"]
    /\ resp' = [resp EXCEPT !.reason = "UNCAUGHT", !.fault = TRUE]
    /\ UNCHANGED <<now, autoDeleteEnabled, isAdmin, failedAttempts, tokenVars, sessionVars, req, snap>>

\* the updateMany of cleanupExpiredSessions is rejected: the catch of
\* cleanupExpiredData logs the error and the callback returns
\* (cleanup.js 23-25)
CleanupSessionsFails(p) ==
    /\ pc[p] = "cl_sessions"
    /\ Finish(p, [resp EXCEPT !.reason = "CLEANUP_ERROR", !.fault = TRUE])
    /\ UNCHANGED <<now, autoDeleteEnabled, isAdmin, failedAttempts, tokenVars, sessionVars>>

\* ------------------------------------------------------------ token list
\* milliseconds in a second: Date differences are in milliseconds
MsPerSecond == 1000

\* a time remaining computed without Math.max
calculateTimeRemaining_NoClamp(token, t) ==
    IF token.status # "ACTIVE" THEN 0
    ELSE IF token.expires_at = NoTime THEN 0
    ELSE (token.expires_at - t) \div MsPerSecond

\* calculateTimeRemaining (User.js 352-365), with t the value of new Date()
\* in milliseconds: Math.floor(Math.max(0, expiresAt - now) / 1000), and 0
\* for a token that is not ACTIVE or whose expires_at is no date
calculateTimeRemaining(token, t) ==
    IF token.status # "ACTIVE" THEN 0
    ELSE IF token.expires_at = NoTime THEN 0
    ELSE LET remaining == IF token.expires_at - t > 0 THEN token.expires_at - t ELSE 0
         IN remaining \div MsPerSecond

\* the route's own calculateTimeRemaining (part_000 220-226): it has no
\* check of the date, so that an ACTIVE token without a date gives NaN,
\* which is sent as no number
routeTimeRemaining(token, t) ==
    IF token.status # "ACTIVE" THEN 0
    ELSE IF token.expires_at = NoTime THEN NoTime
    ELSE LET remaining == IF token.expires_at - t > 0 THEN token.expires_at - t ELSE 0
         IN remaining \div MsPerSecond

\* getAllTokens up to the await of once('value') (User.js 325-327), called
\* by GET /tokens through Token.find (part_000 176-190)
ListStart(p) ==
    /\ Begin(p, [NoReq EXCEPT !.op = "list"], "list_reply")
    /\ snap' = [snap EXCEPT ![p] =
                  Snapshot(tokens, {t \in TokenIds : tokens[t].status # "ABSENT"})]
    /\ UNCHANGED <<now, autoDeleteEnabled, isAdmin, failedAttempts, tokenVars, sessionVars>>

\* getAllTokens after the read (User.js 333-344) and the rest of GET /tokens
\* (part_000 195-209): every token is listed with its timeRemaining; the
\* route keeps a timeRemaining that is not 0 and computes a 0 again with
\* its own calculateTimeRemaining (part_000 220-226).  The answer is kept
\* for the oldest token listed.
ListReply(p) ==
    /\ pc[p] = "list_reply"
    /\ LET id == IF snap[p].ids = {} THEN 0 ELSE Min(snap[p].ids)
           first == IF id = 0 THEN 0 ELSE calculateTimeRemaining(snap[p].tok[id], now)
           again == IF id = 0 \/ first # 0
                    THEN first
                    ELSE routeTimeRemaining(snap[p].tok[id], now)
       IN Finish(p, [NoResp EXCEPT !.ok = TRUE, !.reason = "LISTED", !.id = id,
                                   !.n = again])
    /\ UNCHANGED <<now, autoDeleteEnabled, isAdmin, failedAttempts, tokenVars, sessionVars>>

\* ----------------------------------------------------------- admin routes
\* process.env.ADMIN_USERNAME and process.env.ADMIN_PASSWORD
AdminUsername == <<1>>
AdminPassword == <<2>>

\* usernames and passwords an admin login may carry: the configured one,
\* the configured username with whitespace after it, another value, none
AdminNames == {AdminUsername, AdminUsername \o <<Space>>, AdminPassword, <<>>}
AdminPasswords == {AdminPassword, AdminPassword \o <<Space>>, AdminUsername, <<>>}

\* a guard that lets every caller through
requireAdminAuth_Open(b) ==
    TRUE

\* requireAdminAuth (part_000 14-22): next() is called only when the
\* express session of the request carries isAdmin
requireAdminAuth(b) ==
    isAdmin[b]

\* a request to a guarded admin route from browser b: the handler's slot
\* goes to the handler's first await when the guard passes, and to the
\* guard's 401 otherwise
AdminRequest(p, b, r, at) ==
    Begin(p, [r EXCEPT !.user = b], IF requireAdminAuth(b) THEN at ELSE "admin_denied")

\* the guard's answer (part_000 15-20)
AdminDenied(p) ==
    /\ pc[p] = "admin_denied"
    /\ Finish(p, [NoResp EXCEPT !.reason = "DENIED", !.http = 401,
                                !.msg = "Admin authentication required"])
    /\ UNCHANGED <<now, autoDeleteEnabled, isAdmin, failedAttempts, tokenVars, sessionVars>>

\* POST /api/admin/login arrives with its body (part_000 28-31)
AdminLoginStart(p, b, username, password) ==
    /\ Begin(p, [NoReq EXCEPT !.op = "adminLogin", !.user = b,
                              !.dev = username, !.sec = password], "admin_login")
    /\ UNCHANGED <<now, autoDeleteEnabled, isAdmin, failedAttempts, tokenVars, sessionVars, snap>>

\* the validators and the handler of POST /api/admin/login (part_000
\* 29-58): the username is trimmed by its sanitizer, both fields must be
\* non-empty, and the flag is set when both equal the configured values
AdminLoginReply(p) ==
    /\ pc[p] = "admin_login"
    /\ LET username == Trim(req[p].dev)
           password == req[p].sec
           invalid == Len(username) < 1 \/ Len(password) < 1
           granted == ~invalid /\ username = AdminUsername /\ password = AdminPassword
       IN /\ isAdmin' = IF granted THEN [isAdmin EXCEPT ![req[p].user] = TRUE] ELSE isAdmin
          /\ Finish(p, IF invalid
                       THEN [NoResp EXCEPT !.reason = "INVALID_INPUT", !.http = 400,
                                           !.msg = "Validation failed"]
                       ELSE IF granted
                       THEN [NoResp EXCEPT !.ok = TRUE, !.reason = "ADMIN", !.http = 200,
                                           !.msg = "Admin login successful"]
                       ELSE [NoResp EXCEPT !.reason = "ADMIN", !.http = 401,
                                           !.msg = "Invalid admin credentials"])
    /\ UNCHANGED <<now, autoDeleteEnabled, failedAttempts, tokenVars, sessionVars>>

\* POST /api/admin/logout arrives (part_000 73-74)
AdminLogoutStart(p, b) ==
    /\ Begin(p, [NoReq EXCEPT !.op = "adminLogout", !.user = b], "admin_logout")
    /\ UNCHANGED <<now, autoDeleteEnabled, isAdmin, failedAttempts, tokenVars, sessionVars, snap>>

\* req.session.destroy and its callback (part_000 74-82): the express
\* session of the browser is gone, and with it the flag
AdminLogoutReply(p) ==
    /\ pc[p] = "admin_logout"
    /\ isAdmin' = [isAdmin EXCEPT ![req[p].user] = FALSE]
    /\ Finish(p, [NoResp EXCEPT !.ok = TRUE, !.reason = "ADMIN_OUT", !.http = 200,
                                !.msg = "Admin logged out successfully"])
    /\ UNCHANGED <<now, autoDeleteEnabled, failedAttempts, tokenVars, sessionVars>>

\* DELETE /api/admin/tokens/:tokenId behind the guard (part_000 232-235)
AdminDeleteStart(p, b, id) ==
    /\ AdminRequest(p, b, [NoReq EXCEPT !.op = "delete", !.id = id], "delete_remove")
    /\ UNCHANGED <<now, autoDeleteEnabled, isAdmin, failedAttempts, tokenVars, sessionVars, snap>>

\* POST /api/admin/sessions/:sessionId/force-logout behind the guard
\* (part_000 330-334), up to forceLogout's await of findById
AdminForceLogoutStart(p, b, sid) ==
    /\ AdminRequest(p, b, [NoReq EXCEPT !.op = "forceLogout", !.id = sid], "force_save")
    /\ snap' = IF requireAdminAuth(b)
               THEN [snap EXCEPT ![p] = [NoSnap EXCEPT !.ses = sessions[sid]]]
               ELSE snap
    /\ UNCHANGED <<now, autoDeleteEnabled, isAdmin, failedAttempts, tokenVars, sessionVars>>

\* PATCH /api/admin/auto-delete-expired behind the guard (part_000
\* 262-268): an admitted request flips the flag and, when it is now on,
\* calls deleteExpiredTokens
AdminToggleStart(p, b) ==
    /\ autoDeleteEnabled' = IF requireAdminAuth(b) THEN ~autoDeleteEnabled
                            ELSE autoDeleteEnabled
    /\ AdminRequest(p, b, [NoReq EXCEPT !.op = "toggle"],
                    IF autoDeleteEnabled' THEN "purge_write" ELSE "toggle_reply")
    /\ snap' = IF requireAdminAuth(b) /\ autoDeleteEnabled'
               THEN [snap EXCEPT ![p] = Snapshot(tokens, QueryByStatus(tokens, "EXPIRED"))]
               ELSE snap
    /\ UNCHANGED <<now, isAdmin, failedAttempts, tokenVars, sessionVars>>

\* POST /api/admin/virtual-device/generate-token behind the guard
\* (part_000 367-385), up to the await of User.findOne: the device
\* identifier is trimmed and must not be empty
AdminIssueStart(p, b, dev, cap) ==
    /\ pushed + Pushing < cap
    /\ AdminRequest(p, b, [NoReq EXCEPT !.op = "generate", !.dev = Trim(dev)],
                    IF Len(Trim(dev)) < 1 THEN "generate_invalid" ELSE "generate_find")
    /\ UNCHANGED <<now, autoDeleteEnabled, isAdmin, failedAttempts, tokenVars, sessionVars, snap>>

\* the validation answer of generate-token (part_000 371-378)
AdminIssueInvalid(p) ==
    /\ pc[p] = "generate_invalid"
    /\ Finish(p, [NoResp EXCEPT !.reason = "INVALID_INPUT", !.http = 400,
                                !.msg = "Validation failed"])
    /\ UNCHANGED <<now, autoDeleteEnabled, isAdmin, failedAttempts, tokenVars, sessionVars>>

\* generate-token after User.findOne (part_000 383-394, User.js 194-211):
\* 404 for a device no user has, otherwise createToken runs up to the
\* await of set()
AdminIssueFind(p, secret) ==
    /\ pc[p] = "generate_find"
    /\ IF UsersOfDevice(req[p].dev) = {}
       THEN Finish(p, [NoResp EXCEPT !.reason = "NO_DEVICE", !.http = 404,
                                     !.msg = "Device ID not found"])
       ELSE /\ pc' = [pc EXCEPT ![p] = "create_set"]
            /\ req' = [req EXCEPT ![p].sec = secret, ![p].at = now + ExpirySeconds]
            /\ UNCHANGED <<resp, snap>>
    /\ UNCHANGED <<now, autoDeleteEnabled, isAdmin, failedAttempts, tokenVars, sessionVars>>

\* ---------------------------------------------------------- specifications
\* sequential runs remember the call that returned last: what was asked,
\* what it returned and when
Logged(p) ==
    prev' = [req |-> req[p], resp |-> resp', at |-> now]

\* slots are interchangeable: a call takes the lowest free slot
Free(p) ==
    \A q \in Procs : q < p => pc[q] # "idle"

\* the token store, one call at a time
NextTokenSeq ==
    \/ Tick /\ UNCHANGED prev
    \/ \E tm \in timers : TimerFire(tm) /\ UNCHANGED prev
    \/ \E p \in SeqProcs, u \in Users, s \in Secrets :
           CreateStart(p, DeviceOf(u), s, MaxTokens) /\ UNCHANGED prev
    \/ \E p \in SeqProcs : CreateSet(p) /\ Logged(p)
    \/ \E p \in SeqProcs, d \in Devices, s \in Presented :
           VerifyRead(p, d, s) /\ UNCHANGED prev
    \/ \E p \in SeqProcs : VerifyCheck(p) /\ Logged(p)
    \/ \E p \in SeqProcs, id \in 1..MaxTokens : DeleteStart(p, id) /\ UNCHANGED prev
    \/ \E p \in SeqProcs : DeleteRemove(p) /\ Logged(p)
    \/ \E p \in SeqProcs : SweepRead(p) /\ UNCHANGED prev
    \/ \E p \in SeqProcs : SweepWrite(p) /\ Logged(p)

SpecTokenSeq == Init /\ [][NextTokenSeq]_vars

\* the token store under two concurrent calls
NextTokens ==
    \/ Tick /\ UNCHANGED prev
    \/ \E tm \in timers : TimerFire(tm) /\ UNCHANGED prev
    \/ \E p \in Procs, s \in Secrets :
           Free(p) /\ CreateStart(p, DeviceOf("alice"), s, RaceTokens) /\ UNCHANGED prev
    \/ \E p \in Procs : CreateSet(p) /\ UNCHANGED prev
    \/ \E p \in Procs, s \in Secrets :
           Free(p) /\ VerifyRead(p, DeviceOf("alice"), s) /\ UNCHANGED prev
    \/ \E p \in Procs : VerifyCheck(p) /\ UNCHANGED prev
    \/ \E p \in Procs, id \in 1..RaceTokens :
           Free(p) /\ DeleteStart(p, id) /\ UNCHANGED prev
    \/ \E p \in Procs : DeleteRemove(p) /\ UNCHANGED prev
    \/ \E p \in Procs : Free(p) /\ SweepRead(p) /\ UNCHANGED prev
    \/ \E p \in Procs : SweepWrite(p) /\ UNCHANGED prev

SpecTokens == Init /\ [][NextTokens]_vars

\* the session store, one call at a time
NextSessionSeq ==
    \/ Tick /\ UNCHANGED prev
    \/ \E p \in SeqProcs, u \in Users : OpenDemote(p, u) /\ UNCHANGED prev
    \/ \E p \in SeqProcs : OpenCreate(p) /\ Logged(p)
    \/ \E p \in SeqProcs, sid \in SessionIds : ValidateRead(p, sid) /\ UNCHANGED prev
    \/ \E p \in SeqProcs : ValidateCheck(p) /\ Logged(p)
    \/ \E p \in SeqProcs, sid \in SessionIds : ForceLogoutRead(p, sid) /\ UNCHANGED prev
    \/ \E p \in SeqProcs : ForceLogoutSave(p, TRUE) /\ Logged(p)
    \/ \E p \in SeqProcs, sid \in SessionIds : LogoutStart(p, sid) /\ UNCHANGED prev
    \/ \E p \in SeqProcs : LogoutUpdate(p, TRUE) /\ Logged(p)
    \/ \E p \in SeqProcs : SweepSessionsStart(p) /\ UNCHANGED prev
    \/ \E p \in SeqProcs : SweepSessions(p) /\ Logged(p)

SpecSessionSeq == Init /\ [][NextSessionSeq]_vars

\* the session store under two concurrent calls
NextSessions ==
    \/ Tick /\ UNCHANGED prev
    \/ \E p \in Procs : Free(p) /\ OpenDemote(p, "alice") /\ UNCHANGED prev
    \/ \E p \in Procs : OpenCreate(p) /\ UNCHANGED prev
    \/ \E p \in Procs, sid \in SessionIds :
           Free(p) /\ ValidateRead(p, sid) /\ UNCHANGED prev
    \/ \E p \in Procs : ValidateCheck(p) /\ UNCHANGED prev
    \/ \E p \in Procs, sid \in SessionIds :
           Free(p) /\ ForceLogoutRead(p, sid) /\ UNCHANGED prev
    \/ \E p \in Procs : ForceLogoutSave(p, TRUE) /\ UNCHANGED prev
    \/ \E p \in Procs, sid \in SessionIds :
           Free(p) /\ LogoutStart(p, sid) /\ UNCHANGED prev
    \/ \E p \in Procs : LogoutUpdate(p, TRUE) /\ UNCHANGED prev
    \/ \E p \in Procs : Free(p) /\ SweepSessionsStart(p) /\ UNCHANGED prev
    \/ \E p \in Procs : SweepSessions(p) /\ UNCHANGED prev

SpecSessions == Init /\ [][NextSessions]_vars

\* maintenance, one call at a time: both sweeps over tokens and sessions
\* that were issued and opened before
NextSweepSeq ==
    \/ Tick /\ UNCHANGED prev
    \/ \E tm \in timers : TimerFire(tm) /\ UNCHANGED prev
    \/ \E p \in SeqProcs, s \in Secrets :
           CreateStart(p, DeviceOf("alice"), s, MaxTokens) /\ UNCHANGED prev
    \/ \E p \in SeqProcs : CreateSet(p) /\ Logged(p)
    \/ \E p \in SeqProcs : SweepRead(p) /\ UNCHANGED prev
    \/ \E p \in SeqProcs : SweepWrite(p) /\ Logged(p)
    \/ \E p \in SeqProcs, u \in Users : OpenDemote(p, u) /\ UNCHANGED prev
    \/ \E p \in SeqProcs : OpenCreate(p) /\ Logged(p)
    \/ \E p \in SeqProcs : SweepSessionsStart(p) /\ UNCHANGED prev
    \/ \E p \in SeqProcs : SweepSessions(p) /\ Logged(p)

SpecSweepSeq == Init /\ [][NextSweepSeq]_vars

\* POST /verify-token over tokens issued before, one request at a time,
\* every emit to the admin room returning
NextRouteSeq ==
    \/ Tick /\ UNCHANGED prev
    \/ \E tm \in timers : TimerFire(tm) /\ UNCHANGED prev
    \/ \E p \in SeqProcs, u \in Users, s \in Secrets :
           CreateStart(p, DeviceOf(u), s, MaxTokens) /\ UNCHANGED prev
    \/ \E p \in SeqProcs : CreateSet(p) /\ Logged(p)
    \/ \E p \in SeqProcs, d \in RouteDevices, s \in Secrets :
           RvStart(p, d, s) /\ UNCHANGED prev
    \/ \E p \in SeqProcs :
           /\ RvFind(p, TRUE)
           /\ IF pc'[p] = "idle" THEN Logged(p) ELSE UNCHANGED prev
    \/ \E p \in SeqProcs :
           /\ RvCheck(p, TRUE) /\ Untracked
           /\ IF pc'[p] = "idle" THEN Logged(p) ELSE UNCHANGED prev
    \/ \E p \in SeqProcs : RvDemote(p) /\ UNCHANGED prev
    \/ \E p \in SeqProcs : RvCreate(p, TRUE) /\ Logged(p)

SpecRouteSeq == Init /\ [][NextRouteSeq]_vars

\* POST /login beside the issue of tokens, one request at a time
NextLoginSeq ==
    \/ Tick /\ UNCHANGED prev
    \/ \E tm \in timers : TimerFire(tm) /\ UNCHANGED prev
    \/ \E p \in SeqProcs, u \in Users, s \in Secrets :
           CreateStart(p, DeviceOf(u), s, MaxTokens) /\ UNCHANGED prev
    \/ \E p \in SeqProcs : CreateSet(p) /\ Logged(p)
    \/ \E p \in SeqProcs, u \in LoginNames, pw \in Passwords :
           LoginFind(p, u, pw) /\ UNCHANGED prev
    \/ \E p \in SeqProcs : LoginCheck(p, TRUE) /\ Untracked /\ Logged(p)

SpecLoginSeq == Init /\ [][NextLoginSeq]_vars

\* the user routes and the admin force-logout when an emit to the admin room
\* may throw, one request at a time
NextRouteFaultSeq ==
    \/ Tick /\ UNCHANGED prev
    \/ \E tm \in timers : TimerFire(tm) /\ UNCHANGED prev
    \/ \E p \in SeqProcs, s \in Secrets :
           CreateStart(p, DeviceOf("alice"), s, MaxTokens) /\ UNCHANGED prev
    \/ \E p \in SeqProcs : CreateSet(p) /\ Logged(p)
    \/ \E p \in SeqProcs, u \in LoginNames, pw \in Passwords :
           LoginFind(p, u, pw) /\ UNCHANGED prev
    \/ \E p \in SeqProcs, pub \in BOOLEAN : LoginCheck(p, pub) /\ Untracked /\ Logged(p)
    \/ \E p \in SeqProcs, d \in RouteDevices, s \in Secrets :
           RvStart(p, d, s) /\ UNCHANGED prev
    \/ \E p \in SeqProcs, pub \in BOOLEAN :
           /\ RvFind(p, pub)
           /\ IF pc'[p] = "idle" THEN Logged(p) ELSE UNCHANGED prev
    \/ \E p \in SeqProcs, pub \in BOOLEAN :
           /\ RvCheck(p, pub) /\ Untracked
           /\ IF pc'[p] = "idle" THEN Logged(p) ELSE UNCHANGED prev
    \/ \E p \in SeqProcs : RvDemote(p) /\ UNCHANGED prev
    \/ \E p \in SeqProcs, pub \in BOOLEAN : RvCreate(p, pub) /\ Logged(p)
    \/ \E p \in SeqProcs, sid \in SessionIds : LogoutStart(p, sid) /\ UNCHANGED prev
    \/ \E p \in SeqProcs, pub \in BOOLEAN : LogoutUpdate(p, pub) /\ Logged(p)
    \/ \E p \in SeqProcs, sid \in SessionIds : ForceLogoutRead(p, sid) /\ UNCHANGED prev
    \/ \E p \in SeqProcs, pub \in BOOLEAN : ForceLogoutSave(p, pub) /\ Logged(p)

SpecRouteFaultSeq == Init /\ [][NextRouteFaultSeq]_vars

\* POST /verify-token when any of its store calls may be rejected, one
\* request at a time
NextRouteStoreFaultSeq ==
    \/ Tick /\ UNCHANGED prev
    \/ \E tm \in timers : TimerFire(tm) /\ UNCHANGED prev
    \/ \E p \in SeqProcs, s \in Secrets :
           CreateStart(p, DeviceOf("alice"), s, MaxTokens) /\ UNCHANGED prev
    \/ \E p \in SeqProcs : CreateSet(p) /\ Logged(p)
    \/ \E p \in SeqProcs, d \in RouteDevices, s \in Secrets :
           RvStart(p, d, s) /\ UNCHANGED prev
    \/ \E p \in SeqProcs :
           /\ RvFind(p, TRUE)
           /\ IF pc'[p] = "idle" THEN Logged(p) ELSE UNCHANGED prev
    \/ \E p \in SeqProcs : RvFindFails(p) /\ Logged(p)
    \/ \E p \in SeqProcs : RvQueryFails(p) /\ Untracked /\ Logged(p)
    \/ \E p \in SeqProcs :
           /\ RvCheck(p, TRUE) /\ Untracked
           /\ IF pc'[p] = "idle" THEN Logged(p) ELSE UNCHANGED prev
    \/ \E p \in SeqProcs : RvUpdateFails(p) /\ Untracked /\ Logged(p)
    \/ \E p \in SeqProcs : RvDemote(p) /\ UNCHANGED prev
    \/ \E p \in SeqProcs : RvDemoteFails(p) /\ Logged(p)
    \/ \E p \in SeqProcs : RvCreate(p, TRUE) /\ Logged(p)
    \/ \E p \in SeqProcs : RvCreateFails(p) /\ Logged(p)

SpecRouteStoreFaultSeq == Init /\ [][NextRouteStoreFaultSeq]_vars

\* createToken called again and again, one call at a time: the random
\* generator may return a string it has returned before
NextIssueSeq ==
    \/ Tick /\ UNCHANGED prev
    \/ \E tm \in timers : TimerFire(tm) /\ UNCHANGED prev
    \/ \E p \in SeqProcs, u \in Users, s \in Secrets :
           CreateStart(p, DeviceOf(u), s, MaxTokens + 1) /\ UNCHANGED prev
    \/ \E p \in SeqProcs : CreateSet(p) /\ Logged(p)

SpecIssueSeq == Init /\ [][NextIssueSeq]_vars

\* deleteExpiredTokens, reached by switching auto-delete on, over tokens
\* issued and verified before, one call at a time
NextPurgeSeq ==
    \/ Tick /\ UNCHANGED prev
    \/ \E tm \in timers : TimerFire(tm) /\ UNCHANGED prev
    \/ \E p \in SeqProcs, s \in Secrets :
           CreateStart(p, DeviceOf("alice"), s, MaxTokens + 1) /\ UNCHANGED prev
    \/ \E p \in SeqProcs : CreateSet(p) /\ UNCHANGED prev
    \/ \E p \in SeqProcs, s \in Secrets :
           VerifyRead(p, DeviceOf("alice"), s) /\ UNCHANGED prev
    \/ \E p \in SeqProcs : VerifyCheck(p) /\ UNCHANGED prev
    \/ \E p \in SeqProcs : ToggleStart(p) /\ UNCHANGED prev
    \/ \E p \in SeqProcs : ToggleReply(p) /\ UNCHANGED prev
    \/ \E p \in SeqProcs : PurgeWrite(p) /\ UNCHANGED prev

SpecPurgeSeq == Init /\ [][NextPurgeSeq]_vars

\* the auto-delete flag, its toggle and both interval callbacks over a
\* token and sessions created before, one call at a time
NextAutoDeleteSeq ==
    \/ Tick /\ UNCHANGED prev
    \/ \E tm \in timers : TimerFire(tm) /\ UNCHANGED prev
    \/ \E p \in SeqProcs, s \in Secrets :
           CreateStart(p, DeviceOf("alice"), s, MaxTokens) /\ UNCHANGED prev
    \/ \E p \in SeqProcs : CreateSet(p) /\ Logged(p)
    \/ \E p \in SeqProcs : OpenDemote(p, "alice") /\ UNCHANGED prev
    \/ \E p \in SeqProcs : OpenCreate(p) /\ Logged(p)
    \/ \E p \in SeqProcs : ToggleStart(p) /\ UNCHANGED prev
    \/ \E p \in SeqProcs : ToggleReply(p) /\ Logged(p)
    \/ \E p \in SeqProcs : PurgeTickStart(p) /\ UNCHANGED prev
    \/ \E p \in SeqProcs : PurgeSkip(p) /\ Logged(p)
    \/ \E p \in SeqProcs : PurgeWrite(p) /\ Logged(p)
    \/ \E p \in SeqProcs : CleanupStart(p) /\ UNCHANGED prev
    \/ \E p \in SeqProcs : CleanupTokens(p) /\ UNCHANGED prev
    \/ \E p \in SeqProcs : CleanupSessions(p) /\ Logged(p)

SpecAutoDeleteSeq == Init /\ [][NextAutoDeleteSeq]_vars

\* cleanupExpiredData over tokens and sessions created before, one call at
\* a time, when its store calls may be rejected
NextCleanupSeq ==
    \/ Tick /\ UNCHANGED prev
    \/ \E tm \in timers : TimerFire(tm) /\ UNCHANGED prev
    \/ \E p \in SeqProcs, s \in Secrets :
           CreateStart(p, DeviceOf("alice"), s, MaxTokens) /\ UNCHANGED prev
    \/ \E p \in SeqProcs : CreateSet(p) /\ Logged(p)
    \/ \E p \in SeqProcs, u \in Users : OpenDemote(p, u) /\ UNCHANGED prev
    \/ \E p \in SeqProcs : OpenCreate(p) /\ Logged(p)
    \/ \E p \in SeqProcs : CleanupStart(p) /\ UNCHANGED prev
    \/ \E p \in SeqProcs : CleanupTokens(p) /\ UNCHANGED prev
    \/ \E p \in SeqProcs : CleanupTokensFails(p) /\ UNCHANGED prev
    \/ \E p \in SeqProcs : CleanupSessions(p) /\ Logged(p)
    \/ \E p \in SeqProcs : CleanupSessionsFails(p) /\ Logged(p)

SpecCleanupSeq == Init /\ [][NextCleanupSeq]_vars

\* POST /verify-token with any body, one request at a time, every emit
\* returning
NextRouteInputSeq ==
    \/ Tick /\ UNCHANGED prev
    \/ \E tm \in timers : TimerFire(tm) /\ UNCHANGED prev
    \/ \E p \in SeqProcs, s \in Secrets :
           CreateStart(p, DeviceOf("alice"), s, MaxTokens) /\ UNCHANGED prev
    \/ \E p \in SeqProcs : CreateSet(p) /\ Logged(p)
    \/ \E p \in SeqProcs, d \in InputDevices, s \in InputTokens :
           RvArrive(p, d, s) /\ UNCHANGED prev
    \/ \E p \in SeqProcs :
           /\ RvValidate(p)
           /\ IF pc'[p] = "idle" THEN Logged(p) ELSE UNCHANGED prev
    \/ \E p \in SeqProcs : RvFind(p, TRUE) /\ UNCHANGED prev
    \/ \E p \in SeqProcs :
           /\ RvCheck(p, TRUE) /\ Untracked
           /\ IF pc'[p] = "idle" THEN Logged(p) ELSE UNCHANGED prev
    \/ \E p \in SeqProcs : RvDemote(p) /\ UNCHANGED prev
    \/ \E p \in SeqProcs : RvCreate(p, TRUE) /\ Logged(p)

SpecRouteInputSeq == Init /\ [][NextRouteInputSeq]_vars

\* instants, in milliseconds, around whole seconds
ListInstants == {0, 1, 999, 1000, 1001, 1999, 2000, 2001}

\* the records a token can be in the store as: issued and ACTIVE, USED by
\* a verify, EXPIRED, or the status alone that the expiry timer leaves
\* where the token was deleted
ListRecords ==
    {[NoToken EXCEPT !.device_id = DeviceOf("alice"),
                     !.token_hash = generateTokenHash(DeviceOf("alice"), <<1>>),
                     !.status = st, !.created_at = 0, !.expires_at = e,
                     !.used_at = IF st = "USED" THEN 0 ELSE NoTime] :
         st \in {"ACTIVE", "USED", "EXPIRED"}, e \in ListInstants}
    \cup {[NoToken EXCEPT !.status = "EXPIRED"]}

\* one token in the store at some instant
InitList ==
    /\ now \in ListInstants
    /\ \E r \in ListRecords : tokens = [t \in TokenIds |-> IF t = 1 THEN r ELSE NoToken]
    /\ pushed = 1
    /\ timers = {}
    /\ sessions = [s \in SessionIds |-> NoSession]
    /\ created = 0
    /\ cookies = {}
    /\ pc = [p \in Procs |-> "idle"]
    /\ req = [p \in Procs |-> NoReq]
    /\ snap = [p \in Procs |-> NoSnap]
    /\ resp = NoResp
    /\ consumed = [t \in TokenIds |-> 0]
    /\ prev = NoPrev
    /\ autoDeleteEnabled = FALSE
    /\ isAdmin = [b \in Browsers |-> FALSE]
    /\ failedAttempts = NoAttempts

\* GET /tokens over that store
NextList ==
    \/ \E p \in SeqProcs : ListStart(p) /\ UNCHANGED prev
    \/ \E p \in SeqProcs : ListReply(p) /\ Logged(p)

SpecList == InitList /\ [][NextList]_vars

\* POST /login and POST /verify-token with the failedAttempts map followed,
\* one request at a time, every emit returning, within the lifetime of the
\* tokens issued
AttemptsLeft ==
    \A u \in LoginNames : failedAttempts[u].n < MaxAttempts

NextAttemptsSeq ==
    \/ \E p \in SeqProcs, s \in Secrets :
           CreateStart(p, DeviceOf("alice"), s, MaxTokens) /\ UNCHANGED prev
    \/ \E p \in SeqProcs : CreateSet(p) /\ Logged(p)
    \/ \E p \in SeqProcs, u \in LoginNames, pw \in Passwords :
           AttemptsLeft /\ LoginFind(p, u, pw) /\ UNCHANGED prev
    \/ \E p \in SeqProcs : LoginCheck(p, TRUE) /\ Tracked(p) /\ Logged(p)
    \/ \E p \in SeqProcs, s \in Secrets :
           AttemptsLeft /\ RvStart(p, DeviceOf("alice"), s) /\ UNCHANGED prev
    \/ \E p \in SeqProcs : RvFind(p, TRUE) /\ UNCHANGED prev
    \/ \E p \in SeqProcs :
           /\ RvCheck(p, TRUE) /\ Tracked(p)
           /\ IF pc'[p] = "idle" THEN Logged(p) ELSE UNCHANGED prev
    \/ \E p \in SeqProcs : RvDemote(p) /\ UNCHANGED prev
    \/ \E p \in SeqProcs : RvCreate(p, TRUE) /\ Logged(p)

SpecAttemptsSeq == Init /\ [][NextAttemptsSeq]_vars

\* POST /verify-token under two concurrent requests, every emit returning
NextRoutes ==
    \/ Tick /\ UNCHANGED prev
    \/ \E tm \in timers : TimerFire(tm) /\ UNCHANGED prev
    \/ \E p \in Procs, s \in Secrets :
           Free(p) /\ CreateStart(p, DeviceOf("alice"), s, RaceTokens) /\ UNCHANGED prev
    \/ \E p \in Procs : CreateSet(p) /\ UNCHANGED prev
    \/ \E p \in Procs, s \in Secrets :
           Free(p) /\ RvStart(p, DeviceOf("alice"), s) /\ UNCHANGED prev
    \/ \E p \in Procs : RvFind(p, TRUE) /\ UNCHANGED prev
    \/ \E p \in Procs : RvCheck(p, TRUE) /\ Untracked /\ UNCHANGED prev
    \/ \E p \in Procs : RvDemote(p) /\ UNCHANGED prev
    \/ \E p \in Procs : RvCreate(p, TRUE) /\ UNCHANGED prev

SpecRoutes == Init /\ [][NextRoutes]_vars

\* both stores under two concurrent calls
\* device identifiers a generate-token request may carry: a registered
\* one, one with whitespace around it, one no user has, a blank one
AdminDevices == {DeviceOf("alice"), <<Space>> \o DeviceOf("alice"), <<2>>, <<Space>>}

\* the admin router: logins and logouts of two browsers and the guarded
\* routes over a token and sessions, one call at a time and at one
\* instant
NextAdminSeq ==
    \/ \E p \in SeqProcs : OpenDemote(p, "alice") /\ UNCHANGED prev
    \/ \E p \in SeqProcs : OpenCreate(p) /\ UNCHANGED prev
    \/ \E p \in SeqProcs, b \in Browsers, u \in AdminNames, w \in AdminPasswords :
           AdminLoginStart(p, b, u, w) /\ UNCHANGED prev
    \/ \E p \in SeqProcs : AdminLoginReply(p) /\ UNCHANGED prev
    \/ \E p \in SeqProcs, b \in Browsers : AdminLogoutStart(p, b) /\ UNCHANGED prev
    \/ \E p \in SeqProcs : AdminLogoutReply(p) /\ UNCHANGED prev
    \/ \E p \in SeqProcs : AdminDenied(p) /\ UNCHANGED prev
    \/ \E p \in SeqProcs, b \in Browsers, id \in 1..MaxTokens :
           AdminDeleteStart(p, b, id) /\ UNCHANGED prev
    \/ \E p \in SeqProcs : DeleteRemove(p) /\ UNCHANGED prev
    \/ \E p \in SeqProcs, b \in Browsers, sid \in SessionIds :
           AdminForceLogoutStart(p, b, sid) /\ UNCHANGED prev
    \/ \E p \in SeqProcs : ForceLogoutSave(p, TRUE) /\ UNCHANGED prev
    \/ \E p \in SeqProcs, b \in Browsers : AdminToggleStart(p, b) /\ UNCHANGED prev
    \/ \E p \in SeqProcs : ToggleReply(p) /\ UNCHANGED prev
    \/ \E p \in SeqProcs : PurgeWrite(p) /\ UNCHANGED prev
    \/ \E p \in SeqProcs, b \in Browsers, dev \in AdminDevices :
           AdminIssueStart(p, b, dev, MaxTokens) /\ UNCHANGED prev
    \/ \E p \in SeqProcs : AdminIssueInvalid(p) /\ UNCHANGED prev
    \/ \E p \in SeqProcs, s \in Secrets : AdminIssueFind(p, s) /\ UNCHANGED prev
    \/ \E p \in SeqProcs : CreateSet(p) /\ UNCHANGED prev

SpecAdminSeq == Init /\ [][NextAdminSeq]_vars

\* the slot the setInterval callbacks run in: a tick does not wait for a
\* request to return (server.js 150-151)
IntervalProcs == Procs \ SeqProcs

\* tokens issued and deleted by requests, their expiry timers and the
\* 5-minute cleanup tick, with no verify at all
NextTokenLive ==
    \/ Tick /\ UNCHANGED prev
    \/ \E tm \in timers : TimerFire(tm) /\ UNCHANGED prev
    \/ \E p \in SeqProcs, s \in Secrets :
           CreateStart(p, DeviceOf("alice"), s, MaxTokens) /\ UNCHANGED prev
    \/ \E p \in SeqProcs : CreateSet(p) /\ UNCHANGED prev
    \/ \E p \in SeqProcs, id \in 1..MaxTokens : DeleteStart(p, id) /\ UNCHANGED prev
    \/ \E p \in SeqProcs : DeleteRemove(p) /\ UNCHANGED prev
    \/ \E p \in IntervalProcs : CleanupStart(p) /\ UNCHANGED prev
    \/ \E p \in IntervalProcs : CleanupTokens(p) /\ UNCHANGED prev
    \/ \E p \in IntervalProcs : CleanupSessions(p) /\ UNCHANGED prev

\* a pending setTimeout callback is eventually run, and so is each step of
\* the setInterval callback: the event loop starves neither
TokenLiveFairness ==
    /\ WF_vars(\E tm \in timers : TimerFire(tm) /\ UNCHANGED prev)
    /\ WF_vars(\E p \in IntervalProcs : CleanupStart(p) /\ UNCHANGED prev)
    /\ WF_vars(\E p \in IntervalProcs : CleanupTokens(p) /\ UNCHANGED prev)
    /\ WF_vars(\E p \in IntervalProcs : CleanupSessions(p) /\ UNCHANGED prev)

SpecTokenLive == Init /\ [][NextTokenLive]_vars /\ TokenLiveFairness

\* sessions created and force-logged-out by requests and the 5-minute
\* cleanup tick, whose token sweep may be rejected by the store, with no
\* validateSession at all
NextSessionLive ==
    \/ Tick /\ UNCHANGED prev
    \/ \E p \in SeqProcs : OpenDemote(p, "alice") /\ UNCHANGED prev
    \/ \E p \in SeqProcs : OpenCreate(p) /\ UNCHANGED prev
    \/ \E p \in SeqProcs, sid \in SessionIds : ForceLogoutRead(p, sid) /\ UNCHANGED prev
    \/ \E p \in SeqProcs : ForceLogoutSave(p, TRUE) /\ UNCHANGED prev
    \/ \E p \in IntervalProcs : CleanupStart(p) /\ UNCHANGED prev
    \/ \E p \in IntervalProcs : CleanupTokens(p) /\ UNCHANGED prev
    \/ \E p \in IntervalProcs : CleanupTokensFails(p) /\ UNCHANGED prev
    \/ \E p \in IntervalProcs : CleanupSessions(p) /\ UNCHANGED prev

\* the setInterval callback is eventually run, its awaited token sweep
\* eventually settles, resolved or rejected, and its session sweep is
\* eventually run
SessionLiveFairness ==
    /\ WF_vars(\E p \in IntervalProcs : CleanupStart(p) /\ UNCHANGED prev)
    /\ WF_vars(\E p \in IntervalProcs :
                   (CleanupTokens(p) \/ CleanupTokensFails(p)) /\ UNCHANGED prev)
    /\ WF_vars(\E p \in IntervalProcs : CleanupSessions(p) /\ UNCHANGED prev)

SpecSessionLive == Init /\ [][NextSessionLive]_vars /\ SessionLiveFairness

\* verifyToken over two tokens of one or two devices, issued with equal or
\* different secrets, one call at a time, before any expiry timer has
\* been run
NextVerifySeq ==
    \/ Tick /\ UNCHANGED prev
    \/ \E p \in SeqProcs, u \in Users, s \in Secrets :
           CreateStart(p, DeviceOf(u), s, MaxTokens + 1) /\ UNCHANGED prev
    \/ \E p \in SeqProcs : CreateSet(p) /\ UNCHANGED prev
    \/ \E p \in SeqProcs, d \in Devices, s \in Presented :
           VerifyRead(p, d, s) /\ UNCHANGED prev
    \/ \E p \in SeqProcs : VerifyCheck(p) /\ UNCHANGED prev

SpecVerifySeq == Init /\ [][NextVerifySeq]_vars

Next ==
    NextTokens \/ NextSessions

Spec == Init /\ [][Next]_vars

\* ------------------------------------------------------------------ claims
\* slot p leaves position `at` and its call returns in this step
ReturnsFrom(p, at) ==
    pc[p] = at /\ pc'[p] = "idle"

ActiveOf(S, u) ==
    {s \in SessionIds : S[s].username = u /\ S[s].status = "ACTIVE"}

\* C1: of the verify calls on one issued token, however they interleave, at
\* most one returns valid.
C1_AtMostOneValid ==
    \A t \in TokenIds : consumed[t] <= 1

\* C2: every principal has at most one ACTIVE session in every reachable
\* state, also when createSession calls for that principal interleave.
C2_SingleActiveSession ==
    \A u \in Users : Cardinality(ActiveOf(sessions, u)) <= 1

\* C3: a token that is USED or EXPIRED keeps that status in every later
\* step, whichever of verify, the expiry timer and the sweep takes it (a
\* deleted token has no status any more).
C3_TokenTerminal ==
    [][\A t \in TokenIds :
          tokens[t].status \in {"USED", "EXPIRED"}
              => tokens'[t].status \in {tokens[t].status, "ABSENT"}]_vars

\* C4: a session that is FORCED_LOGOUT or EXPIRED keeps that status in
\* every later step, whichever of open, validate, forceLogout, logout and
\* the sweep takes it.
C4_SessionTerminal ==
    [][\A s \in SessionIds :
          sessions[s].status \in {"FORCED_LOGOUT", "EXPIRED"}
              => sessions'[s].status = sessions[s].status]_vars

\* C5: a verify with the device and the secret of the issue that returned
\* just before it, made before the token's expiry, returns valid and
\* leaves that token USED; a verify with the device and secret of a verify
\* that returned valid just before it does not return valid.
C5_IssueVerifyVerify ==
    [][\A p \in SeqProcs :
          ReturnsFrom(p, "verify_check") =>
              /\ (/\ prev.req.op = "issue"
                  /\ req[p].dev = prev.req.dev
                  /\ req[p].sec = prev.resp.sec
                  /\ now < prev.resp.n)
                    => /\ resp'.ok
                       /\ resp'.id = prev.resp.id
                       /\ tokens'[prev.resp.id].status = "USED"
              /\ (/\ prev.req.op = "verify"
                  /\ prev.resp.ok
                  /\ req[p].dev = prev.req.dev
                  /\ req[p].sec = prev.req.sec)
                    => ~resp'.ok]_vars

\* a verify right after the verify that consumed the token has been refused
C5_Witness ==
    /\ prev.req.op = "verify"
    /\ prev.resp.reason = "TOKEN_INACTIVE"
    /\ consumed[prev.resp.id] = 1
    /\ tokens[prev.resp.id].status = "USED"
    /\ tokens[prev.resp.id].token_hash = prev.req.dev \o prev.req.sec

\* the tokens a verify call read that carry the device it was given
ReadOfDevice(p) ==
    {t \in snap[p].ids : snap[p].tok[t].device_id = req[p].dev}

C7_DeviceMustMatch ==
    [][\A p \in SeqProcs :
          ReturnsFrom(p, "verify_check") =>
              /\ resp'.ok => tokens[resp'.id].device_id = req[p].dev
              /\ \A t \in TokenIds :
                    (tokens[t].status # "ABSENT" /\ tokens[t].device_id # req[p].dev)
                        => tokens'[t] = tokens[t]
              /\ ReadOfDevice(p) = {} => resp'.reason = "TOKEN_NOT_FOUND"]_vars

\* a verify whose digest is that of another device's ACTIVE token has been
\* answered TOKEN_NOT_FOUND
C7_Witness ==
    /\ prev.req.op = "verify"
    /\ prev.resp.reason = "TOKEN_NOT_FOUND"
    /\ \E t \in TokenIds :
          /\ tokens[t].status = "ACTIVE"
          /\ tokens[t].token_hash = prev.req.dev \o prev.req.sec
          /\ tokens[t].device_id # prev.req.dev

\* C8: when an open for a principal returns right after another open for
\* the same principal, the session of the first is EXPIRED and the session
\* of the second is the principal's only ACTIVE one; no step of an open
\* changes a session of another principal.
C8_OpenTwice ==
    [][\A p \in SeqProcs :
          /\ (ReturnsFrom(p, "open_create")
              /\ prev.req.op = "open" /\ prev.req.user = req[p].user)
                => /\ sessions'[prev.resp.id].status = "EXPIRED"
                   /\ ActiveOf(sessions', req[p].user) = {resp'.id}
                   /\ resp'.id # prev.resp.id
          /\ (pc'[p] = "open_create" \/ pc[p] = "open_create")
                => \A s \in SessionIds :
                      (/\ sessions[s].status # "ABSENT"
                       /\ sessions[s].username # (IF pc[p] = "open_create"
                                                  THEN req[p].user ELSE req'[p].user))
                          => sessions'[s] = sessions[s]]_vars

\* two opens for one principal have returned one after the other, with a
\* session of the other principal ACTIVE beside them
C8_Witness ==
    /\ prev.req.op = "open"
    /\ prev.resp.id = 2
    /\ sessions[1].username = prev.req.user
    /\ sessions[1].status = "EXPIRED"
    /\ sessions[2].status = "ACTIVE"
    /\ 1 \in cookies

\* C9: forceLogout of a session that is ACTIVE returns true and sets that
\* session's status, and nothing else, to FORCED_LOGOUT; forceLogout of a
\* session that does not exist or is not ACTIVE returns false and changes
\* no session; neither step of forceLogout changes a token.
C9_ForceLogoutFrame ==
    [][\A p \in SeqProcs :
          /\ pc'[p] = "force_save" => sessions' = sessions /\ tokens' = tokens
          /\ ReturnsFrom(p, "force_save") =>
                /\ tokens' = tokens
                /\ IF sessions[req[p].id].status = "ACTIVE"
                   THEN /\ resp'.ok
                        /\ sessions' = [sessions EXCEPT
                                          ![req[p].id].status = "FORCED_LOGOUT"]
                   ELSE /\ ~resp'.ok
                        /\ sessions' = sessions]_vars

\* forceLogout has been refused for a session that was already terminal,
\* while the principal's other session is ACTIVE
C9_Witness ==
    /\ prev.req.op = "forceLogout"
    /\ ~prev.resp.ok
    /\ sessions[prev.req.id].status \in {"EXPIRED", "FORCED_LOGOUT"}
    /\ \E s \in SessionIds : sessions[s].status = "ACTIVE"

\* no token, and no session, has its expires_at in [t1, t2)
NoTokenDueBetween(t1, t2) ==
    \A t \in TokenIds :
        tokens[t].status # "ABSENT" => ~(t1 <= tokens[t].expires_at /\ tokens[t].expires_at < t2)

NoSessionDueBetween(t1, t2) ==
    \A s \in SessionIds :
        sessions[s].status # "ABSENT"
            => ~(t1 <= sessions[s].expires_at /\ sessions[s].expires_at < t2)

\* C10: a sweep of a store that returns right after another sweep of that
\* store, with no entity of the store falling due between the two, returns
\* 0 and leaves the store as it is.
C10_SweepIdempotent ==
    [][\A p \in SeqProcs :
          /\ (/\ ReturnsFrom(p, "sweep_write")
              /\ prev.req.op = "sweepTokens"
              /\ NoTokenDueBetween(prev.at, now))
                => resp'.n = 0 /\ tokens' = tokens
          /\ (/\ ReturnsFrom(p, "sweep_sessions")
              /\ prev.req.op = "sweepSessions"
              /\ NoSessionDueBetween(prev.req.at, req[p].at))
                => resp'.n = 0 /\ sessions' = sessions]_vars

\* a token sweep has returned 0 over a token an earlier sweep expired (its
\* timer is still pending), and a session is EXPIRED though its principal
\* never opened a second one
C10_Witness ==
    /\ prev.req.op = "sweepTokens"
    /\ prev.resp.n = 0
    /\ \E t \in TokenIds :
          tokens[t].status = "EXPIRED" /\ \E tm \in timers : tm.id = t
    /\ \E s \in SessionIds :
          /\ sessions[s].status = "EXPIRED"
          /\ Cardinality({r \in SessionIds : sessions[r].username = sessions[s].username}) = 1

\* C11: a token sweep that runs beside verify, delete and other sweeps
\* changes nothing but the status of tokens that are ACTIVE and past their
\* expires_at at the moment it writes; every other token and every other
\* field stays as the store held it.
C11_SweepTouchesOnlyDue ==
    [][\A p \in Procs :
          ReturnsFrom(p, "sweep_write") =>
              \A t \in TokenIds :
                  \/ tokens'[t] = tokens[t]
                  \/ /\ tokens[t].status = "ACTIVE"
                     /\ tokens[t].expires_at < now
                     /\ tokens'[t] = [tokens[t] EXCEPT !.status = "EXPIRED"]]_vars

\* C12: a token identifier that was handed out and whose record has been
\* removed never has a record again.
C12_RemovedStaysRemoved ==
    [][\A t \in TokenIds :
          (t <= pushed /\ tokens[t].status = "ABSENT")
              => tokens'[t].status = "ABSENT"]_vars

\* C13: delete removes the record with the given identifier and changes no
\* other; it answers true when there was such a record and false when
\* there was none.
C13_DeleteReportsMissing ==
    [][\A p \in SeqProcs :
          ReturnsFrom(p, "delete_remove") =>
              /\ tokens' = [tokens EXCEPT ![req[p].id] = NoToken]
              /\ resp'.ok <=> tokens[req[p].id].status # "ABSENT"]_vars

\* C14: validate answers SESSION_NOT_FOUND for a session that does not
\* exist, SESSION_INACTIVE for one that is not ACTIVE, SESSION_EXPIRED for
\* one that is ACTIVE with expires_at < now, which it sets to EXPIRED, and
\* valid otherwise; only the SESSION_EXPIRED case changes a session.
C14_ValidateCases ==
    [][\A p \in SeqProcs :
          ReturnsFrom(p, "validate_check") =>
              LET doc == sessions[req[p].id]
              IN /\ doc.status = "ABSENT"
                      => resp'.reason = "SESSION_NOT_FOUND" /\ sessions' = sessions
                 /\ doc.status \in {"EXPIRED", "FORCED_LOGOUT"}
                      => resp'.reason = "SESSION_INACTIVE" /\ sessions' = sessions
                 /\ (doc.status = "ACTIVE" /\ doc.expires_at < now)
                      => /\ resp'.reason = "SESSION_EXPIRED"
                         /\ sessions' = [sessions EXCEPT ![req[p].id].status = "EXPIRED"]
                 /\ (doc.status = "ACTIVE" /\ doc.expires_at >= now)
                      => resp'.reason = "VALID" /\ sessions' = sessions
                 /\ resp'.ok <=> resp'.reason = "VALID"]_vars

\* a validate has found its ACTIVE session past the deadline and expired it
\* while the other principal's session stayed ACTIVE
C14_Witness ==
    /\ prev.req.op = "validate"
    /\ prev.resp.reason = "SESSION_EXPIRED"
    /\ ~prev.resp.ok
    /\ sessions[prev.req.id].status = "EXPIRED"
    /\ sessions[prev.req.id].expires_at < prev.at
    /\ \E s \in SessionIds : sessions[s].status = "ACTIVE"

\* C15: a verify whose digest and device match only tokens that are USED
\* or EXPIRED gets the answer of a verify that matches no token at all,
\* TOKEN_NOT_FOUND.
C15_TerminalLooksAbsent ==
    [][\A p \in SeqProcs :
          (/\ ReturnsFrom(p, "verify_check")
           /\ ReadOfDevice(p) # {}
           /\ \A t \in ReadOfDevice(p) :
                 snap[p].tok[t].status \in {"USED", "EXPIRED"})
              => resp'.reason = "TOKEN_NOT_FOUND"]_vars

\* C19: a user logout of a session that is ACTIVE leaves it EXPIRED, no
\* step of a logout leaves a session FORCED_LOGOUT that was not, and a
\* session becomes FORCED_LOGOUT only in the save of a forceLogout for it.
C19_LogoutExpires ==
    [][/\ \A p \in SeqProcs :
             ReturnsFrom(p, "logout_update") =>
                 /\ sessions[req[p].id].status = "ACTIVE"
                       => sessions'[req[p].id].status = "EXPIRED"
                 /\ \A s \in SessionIds :
                       sessions'[s].status = "FORCED_LOGOUT"
                           => sessions[s].status = "FORCED_LOGOUT"
       /\ \A s \in SessionIds :
             (sessions'[s].status = "FORCED_LOGOUT" /\ sessions[s].status # "FORCED_LOGOUT")
                 => \E p \in SeqProcs :
                       /\ ReturnsFrom(p, "force_save")
                       /\ req[p].op = "forceLogout"
                       /\ req[p].id = s]_vars

\* a logout has expired the caller's session while another session, ended
\* by the admin, is FORCED_LOGOUT
C19_Witness ==
    /\ prev.req.op = "logout"
    /\ sessions[prev.req.id].status = "EXPIRED"
    /\ sessions[prev.req.id].expires_at >= prev.at
    /\ \E s \in SessionIds : sessions[s].status = "FORCED_LOGOUT"

\* the call of slot p is a verify-token request that is answered in this
\* step without success
FailedVerifyReturns(p) ==
    /\ pc[p] \in {"rv_find", "rv_check"}
    /\ pc'[p] = "idle"
    /\ ~resp'.ok

\* C16: two verify-token requests for a registered device, one answered
\* right after the other, that carry the same device and token and both
\* fail are sent the same status and the same message, whatever state the
\* presented token was in.
C16_OneOutwardSignal ==
    [][\A p \in SeqProcs :
          (/\ FailedVerifyReturns(p)
           /\ UsersOfDevice(req[p].dev) # {}
           /\ prev.req.op = "verifyRoute"
           /\ ~prev.resp.ok
           /\ prev.req.dev = req[p].dev
           /\ prev.req.sec = req[p].sec)
              => /\ resp'.http = prev.resp.http
                 /\ resp'.msg = prev.resp.msg]_vars

\* C17: when a login returns success, an ACTIVE token of the device it
\* returns is in the store.
C17_LoginIssuesToken ==
    [][\A p \in SeqProcs :
          (ReturnsFrom(p, "login_check") /\ resp'.ok)
              => \E t \in TokenIds :
                    /\ tokens'[t].status = "ACTIVE"
                    /\ tokens'[t].device_id = resp'.dev]_vars

\* C18: a verify-token request goes on to createSession exactly when its
\* verifyToken consumed a token in that step; a request answered without
\* that creates and demotes no session; the request that went on creates
\* one ACTIVE session for the principal of the device and returns its
\* identifier; no other step of the request touches a session.
C18_SessionIffValid ==
    [][\A p \in SeqProcs :
          /\ (pc[p] = "rv_check" /\ pc'[p] # "rv_check")
                => (pc'[p] = "rv_demote"
                      <=> \E t \in TokenIds :
                             tokens[t].status # "USED" /\ tokens'[t].status = "USED")
          /\ (pc[p] \in {"rv_find", "rv_check"} /\ pc'[p] # pc[p])
                => sessions' = sessions /\ created' = created
          /\ (pc[p] \in {"rv_find", "rv_check"} /\ pc'[p] = "idle")
                => ~resp'.ok /\ resp'.id = 0
          /\ ReturnsFrom(p, "rv_create")
                => /\ resp'.ok
                   /\ created' = created + 1
                   /\ resp'.id = created'
                   /\ sessions'[resp'.id].status = "ACTIVE"
                   /\ sessions[resp'.id].status = "ABSENT"
                   /\ sessions'[resp'.id].username \in UsersOfDevice(req[p].dev)
                   /\ \A s \in SessionIds \ {resp'.id} : sessions'[s] = sessions[s]]_vars

\* a verify-token request for a consumed token has been refused and the
\* session opened by the request that consumed it is still ACTIVE
C18_Witness ==
    /\ prev.req.op = "verifyRoute"
    /\ prev.resp.reason = "TOKEN_INACTIVE"
    /\ \E s \in SessionIds :
          /\ sessions[s].status = "ACTIVE"
          /\ sessions[s].device_id = prev.req.dev
          /\ s \in cookies
    /\ \E t \in TokenIds : consumed[t] = 1

\* C20: with the stores answering every call, a login, a verify-token, a
\* logout and a force-logout are never answered with the internal failure
\* of the catch block, whether the emit to the admin room returns or
\* throws.
C20_PublishNeverFailsCaller ==
    [][\A p \in SeqProcs :
          (/\ pc[p] # "idle"
           /\ pc'[p] = "idle"
           /\ req[p].op \in {"login", "verifyRoute", "logout", "forceLogout"})
              => resp'.http # 500]_vars

\* C21: a verify-token request whose token lookup or token status update
\* was rejected by the store is answered with the internal failure and
\* pushes no entry on the failedAttempts of the principal.
C21_StoreFailureIsInternal ==
    [][\A p \in SeqProcs :
          (/\ pc[p] \in {"rv_find", "rv_check"}
           /\ pc'[p] = "idle"
           /\ resp'.fault)
              => /\ resp'.http = 500
                 /\ resp'.tracked = ""]_vars

\* C22: a verify-token request whose createSession was rejected after its
\* verifyToken consumed a token is answered with the internal failure,
\* leaves that token USED and every token as it was, and creates no
\* session.
C22_LostTokenStaysUsed ==
    [][\A p \in SeqProcs :
          (/\ pc[p] \in {"rv_demote", "rv_create"}
           /\ pc'[p] = "idle"
           /\ resp'.fault)
              => /\ resp'.http = 500
                 /\ ~resp'.ok
                 /\ tokens[req[p].id].status = "USED"
                 /\ tokens' = tokens
                 /\ created' = created
                 /\ \A s \in SessionIds :
                       sessions[s].status = "ABSENT" => sessions'[s].status = "ABSENT"]_vars


\* C23: the record createToken persists does not hold the plain secret it
\* returns (its token_hash is the digest of device and secret, which is
\* not the secret), the records getAllTokens lists never hold a secret in
\* that field, and after issue has returned no token-store call (verify,
\* delete, expiry sweep) returns a plain secret.
C23_PlaintextNotKept ==
    [][\A p \in SeqProcs :
          /\ \A t \in TokenIds : tokens'[t].token_hash \notin Secrets
          /\ ReturnsFrom(p, "create_set")
                => /\ resp'.sec = req[p].sec
                   /\ tokens'[resp'.id].token_hash # resp'.sec
                   /\ tokens'[resp'.id].token_hash
                         = generateTokenHash(req[p].dev, resp'.sec)
          /\ (pc[p] \in {"verify_check", "delete_remove", "sweep_write"} /\ pc'[p] = "idle")
                => resp'.sec = NoStr]_vars

\* a verify that was given the issued secret has returned valid, and the
\* record it consumed holds a digest and no secret
C23_Witness ==
    /\ prev.req.op = "verify"
    /\ prev.resp.ok
    /\ prev.resp.sec = NoStr
    /\ \E t \in TokenIds :
          /\ prev.resp.id = t
          /\ tokens[t].status = "USED"
          /\ tokens[t].token_hash = generateTokenHash(prev.req.dev, prev.req.sec)
          /\ tokens[t].token_hash # prev.req.sec


\* C24: in every reachable state the tokens in the store have pairwise
\* different digests, also when createToken is called again for the same
\* device and generateRandomToken returns a string it returned before.
C24_DigestUnique ==
    \A t1, t2 \in TokenIds :
        (/\ t1 # t2
         /\ tokens[t1].token_hash # NoStr
         /\ tokens[t2].token_hash # NoStr)
            => tokens[t1].token_hash # tokens[t2].token_hash

\* C27: a createToken call adds one record: ACTIVE, used_at empty,
\* expires_at the issue time plus the lifetime; the call returns that
\* expiry, and every record that was in the store is left as it was, an
\* ACTIVE token of the same device included.
C27_IssueFrame ==
    [][\A p \in SeqProcs :
          ReturnsFrom(p, "create_set")
             => /\ tokens[resp'.id].status = "ABSENT"
                /\ tokens'[resp'.id].status = "ACTIVE"
                /\ tokens'[resp'.id].device_id = req[p].dev
                /\ tokens'[resp'.id].used_at = NoTime
                /\ tokens'[resp'.id].expires_at
                      = tokens'[resp'.id].created_at + ExpirySeconds
                /\ tokens'[resp'.id].expires_at = req[p].at
                /\ resp'.n = req[p].at
                /\ \A t \in TokenIds \ {resp'.id} : tokens'[t] = tokens[t]]_vars

\* a second token has been issued to a device whose first token is still
\* ACTIVE
C27_Witness ==
    /\ prev.req.op = "issue"
    /\ \E t1, t2 \in TokenIds :
          /\ t1 # t2
          /\ prev.resp.id = t2
          /\ tokens[t1].status = "ACTIVE"
          /\ tokens[t2].status = "ACTIVE"
          /\ tokens[t1].device_id = tokens[t2].device_id


\* C25: a purge (deleteExpiredTokens) removes the tokens that were EXPIRED
\* when it queried the store and nothing else, and returns how many it
\* removed: every token it removes was EXPIRED, and every token that is
\* ACTIVE or USED is left in the store as it was.
C25_PurgeExact ==
    [][\A p \in SeqProcs :
          ReturnsFrom(p, "purge_write")
             => LET removed == {t \in TokenIds :
                                   tokens[t].status # "ABSENT" /\ tokens'[t].status = "ABSENT"}
                IN /\ \A t \in removed : tokens[t].status = "EXPIRED"
                   /\ \A t \in snap[p].ids : tokens'[t].status = "ABSENT"
                   /\ \A t \in TokenIds \ removed : tokens'[t] = tokens[t]
                   /\ \A t \in TokenIds :
                         tokens[t].status \in {"ACTIVE", "USED"} => tokens'[t] = tokens[t]
                   /\ resp'.n = Cardinality(removed)]_vars

\* a purge has returned 1: the EXPIRED token is gone and a USED token is
\* still in the store
C25_Witness ==
    /\ resp.reason = "PURGED"
    /\ resp.n = 1
    /\ \E t1, t2 \in TokenIds :
          /\ t1 <= pushed
          /\ tokens[t1].status = "ABSENT"
          /\ tokens[t2].status = "USED"
          /\ tokens[t2].used_at # NoTime


\* C26: a store call rejected inside cleanupExpiredData is not raised.  A
\* rejected token sweep reports 0 tokens and changes none, and the session
\* sweep of the same tick still runs; a rejected session sweep reports 0
\* sessions and changes none; the callback returns either way, so that
\* the slot is free for the next tick and no call is ever left crashed.
C26_SweepFailureContained ==
    [][\A p \in SeqProcs :
          /\ pc'[p] # "crashed"
          /\ (pc[p] = "cl_tokens" /\ pc'[p] # "cl_tokens" /\ resp'.fault)
                => /\ pc'[p] = "cl_sessions"
                   /\ resp'.n = 0
                   /\ tokens' = tokens
                   /\ sessions' = sessions
          /\ (pc[p] = "cl_sessions" /\ pc'[p] # "cl_sessions"
                /\ resp'.reason # "CLEANUP_DONE")
                => /\ pc'[p] = "idle"
                   /\ resp'.reason = "CLEANUP_ERROR"
                   /\ resp'.m = 0
                   /\ resp'.n = resp.n
                   /\ tokens' = tokens
                   /\ sessions' = sessions]_vars

\* the last tick to return had its session sweep rejected and left a due
\* session ACTIVE; the next tick is running and about to sweep it
C26_Witness ==
    /\ prev.req.op = "cleanup"
    /\ prev.resp.reason = "CLEANUP_ERROR"
    /\ prev.resp.fault
    /\ prev.resp.m = 0
    /\ \E p \in SeqProcs, s \in SessionIds :
          /\ pc[p] = "cl_sessions"
          /\ req[p].op = "cleanup"
          /\ sessions[s].status = "ACTIVE"
          /\ sessions[s].expires_at < req[p].at


\* C28: the purge timer calls deleteExpiredTokens only when the auto-delete
\* flag is on and otherwise leaves the store alone; only a toggle changes
\* the flag, each toggle inverts it, and a toggle that switches it on
\* purges at once the tokens that are EXPIRED; the cleanup timer marks due
\* tokens and due sessions EXPIRED whatever the flag is.
C28_AutoDeleteFlag ==
    [][\A p \in SeqProcs :
          /\ (pc[p] = "idle" /\ req'[p].op = "purgeTick")
                => /\ (pc'[p] = "purge_write") = autoDeleteEnabled
                   /\ (pc'[p] = "purge_skip") = ~autoDeleteEnabled
          /\ ReturnsFrom(p, "purge_skip")
                => /\ ~autoDeleteEnabled
                   /\ tokens' = tokens
          /\ (ReturnsFrom(p, "purge_write") /\ req[p].op = "purgeTick")
                => /\ autoDeleteEnabled
                   /\ \A t \in snap[p].ids : tokens'[t].status = "ABSENT"
          /\ autoDeleteEnabled' # autoDeleteEnabled
                => (pc[p] = "idle" /\ req'[p].op = "toggle")
          /\ (pc[p] = "idle" /\ req'[p].op = "toggle")
                => /\ autoDeleteEnabled' = ~autoDeleteEnabled
                   /\ (pc'[p] = "purge_write") = autoDeleteEnabled'
          /\ (ReturnsFrom(p, "purge_write") /\ req[p].op = "toggle")
                => /\ autoDeleteEnabled
                   /\ \A t \in snap[p].ids : tokens'[t].status = "ABSENT"
          /\ ReturnsFrom(p, "toggle_reply")
                => /\ ~autoDeleteEnabled
                   /\ tokens' = tokens
          /\ (pc[p] = "cl_tokens" /\ pc'[p] = "cl_sessions")
                => \A t \in snap[p].ids :
                      IsPast(snap[p].tok[t].expires_at, now)
                         => tokens'[t].status = "EXPIRED"
          /\ ReturnsFrom(p, "cl_sessions")
                => \A s \in SessionIds :
                      (sessions[s].status = "ACTIVE" /\ sessions[s].expires_at < req[p].at)
                         => sessions'[s].status = "EXPIRED"]_vars

\* with auto-delete on, a purge tick has removed the one EXPIRED token
C28_Witness ==
    /\ autoDeleteEnabled
    /\ prev.req.op = "purgeTick"
    /\ prev.resp.reason = "PURGED"
    /\ prev.resp.n = 1
    /\ \E t \in TokenIds : t <= pushed /\ tokens[t].status = "ABSENT"


\* C29: a verify-token request whose device identifier belongs to no user
\* is answered 401 "Invalid device" straight after the user lookup: the
\* token query is never sent, no token and no session changes, no session
\* is created and nothing is counted against any user.
C29_UnknownDeviceStopsEarly ==
    [][\A p \in SeqProcs :
          (/\ pc[p] = "rv_find"
           /\ pc'[p] # "rv_find"
           /\ UsersOfDevice(req[p].dev) = {})
              => /\ pc'[p] = "idle"
                 /\ resp'.http = 401
                 /\ resp'.msg = "Invalid device"
                 /\ resp'.reason = "DEVICE_NOT_FOUND"
                 /\ ~resp'.ok
                 /\ resp'.tracked = ""
                 /\ snap'[p] = NoSnap
                 /\ tokens' = tokens
                 /\ consumed' = consumed
                 /\ sessions' = sessions
                 /\ created' = created]_vars

\* a request for an unregistered device that carried the secret of an
\* ACTIVE token of a registered device was turned away, the token still
\* ACTIVE
C29_Witness ==
    /\ prev.req.op = "verifyRoute"
    /\ UsersOfDevice(prev.req.dev) = {}
    /\ prev.resp.reason = "DEVICE_NOT_FOUND"
    /\ prev.resp.http = 401
    /\ \E t \in TokenIds :
          /\ tokens[t].status = "ACTIVE"
          /\ tokens[t].token_hash = generateTokenHash(tokens[t].device_id, prev.req.sec)
          /\ consumed[t] = 0


\* C30 as the spec states it: a verify-token request whose device
\* identifier is empty or whose token does not have exactly the token
\* length is rejected by validation.
C30_AsClaimed ==
    [][\A p \in SeqProcs :
          (/\ pc[p] = "rv_validate"
           /\ pc'[p] # "rv_validate"
           /\ (Len(req[p].dev) = 0 \/ Len(req[p].sec) # TokenLength))
              => /\ pc'[p] = "idle"
                 /\ resp'.http = 400]_vars

\* C30: a verify-token request whose device identifier is empty once
\* trimmed, or whose token once trimmed does not have exactly the token
\* length, is answered 400 "Validation failed" before any store call: no
\* token, session or failed-attempt list changes and nothing is emitted.
C30_MalformedRejected ==
    [][\A p \in SeqProcs :
          (/\ pc[p] = "rv_validate"
           /\ pc'[p] # "rv_validate"
           /\ (Len(Trim(req[p].dev)) = 0 \/ Len(Trim(req[p].sec)) # TokenLength))
              => /\ pc'[p] = "idle"
                 /\ resp'.http = 400
                 /\ resp'.msg = "Validation failed"
                 /\ ~resp'.ok
                 /\ resp'.tracked = ""
                 /\ resp'.event = "none"
                 /\ snap'[p] = NoSnap
                 /\ tokens' = tokens
                 /\ consumed' = consumed
                 /\ sessions' = sessions
                 /\ created' = created]_vars

\* a request whose token is too long was answered 400 while an ACTIVE
\* token was in the store, and the token is still ACTIVE
C30_Witness ==
    /\ prev.req.op = "verifyRoute"
    /\ prev.resp.http = 400
    /\ Len(Trim(prev.req.sec)) # TokenLength
    /\ Len(Trim(prev.req.dev)) >= 1
    /\ \E t \in TokenIds :
          /\ tokens[t].status = "ACTIVE"
          /\ tokens[t].device_id = prev.req.dev
          /\ consumed[t] = 0


\* C31: the timeRemaining listed for a token is 0 when the token is not
\* ACTIVE or its expires_at is not after now, and otherwise the number of
\* whole seconds from now to expires_at; it is never negative.
C31_TimeRemaining ==
    (resp.reason = "LISTED" /\ resp.id # 0)
       => LET token == tokens[resp.id]
              passed == token.expires_at = NoTime \/ token.expires_at <= now
          IN /\ resp.n >= 0
             /\ (token.status # "ACTIVE" \/ passed) => resp.n = 0
             /\ (token.status = "ACTIVE" /\ ~passed)
                   => /\ resp.n * MsPerSecond <= token.expires_at - now
                      /\ token.expires_at - now < (resp.n + 1) * MsPerSecond

\* an ACTIVE token with 1999 ms left is listed with 1 second
C31_Witness ==
    /\ resp.reason = "LISTED"
    /\ resp.id = 1
    /\ tokens[1].status = "ACTIVE"
    /\ tokens[1].expires_at - now = 1999
    /\ resp.n = 1


C33_UsedAtIffUsed ==
    \A t \in TokenIds :
        tokens[t].status # "ABSENT"
           => ((tokens[t].used_at # NoTime) <=> (tokens[t].status = "USED"))


\* C34: under any interleaving of verify-token requests the number of
\* sessions ever created is at most the number of tokens that went from
\* ACTIVE to USED (the tokens that carry a used_at).
C34_OneSessionPerToken ==
    created <= Cardinality({t \in TokenIds : tokens[t].used_at # NoTime})


\* C35: a session created by verify-token belongs to the user registered
\* for the device identifier the request presented and carries that device
\* identifier, which is also the device identifier of the token the request
\* consumed; every session in the store pairs a user with that user's
\* device.
C35_SessionOfDeviceOwner ==
    [][/\ \A p \in SeqProcs :
             ReturnsFrom(p, "rv_create")
                => LET session == sessions'[created']
                   IN /\ created' = created + 1
                      /\ session.username \in Users
                      /\ DeviceOf(session.username) = req[p].dev
                      /\ session.device_id = req[p].dev
                      /\ tokens[req[p].id].device_id = session.device_id
                      /\ tokens[req[p].id].token_hash
                            = generateTokenHash(req[p].dev, req[p].sec)
       /\ \A s \in SessionIds :
             sessions'[s].status # "ABSENT"
                => DeviceOf(sessions'[s].username) = sessions'[s].device_id]_vars

\* bob's device has presented bob's token while alice holds a token too,
\* and the session opened is bob's
C35_Witness ==
    /\ prev.req.op = "verifyRoute"
    /\ prev.resp.ok
    /\ prev.req.dev = DeviceOf("bob")
    /\ sessions[prev.resp.id].username = "bob"
    /\ sessions[prev.resp.id].device_id = DeviceOf("bob")


\* the routes behind requireAdminAuth
GuardedOps == {"delete", "forceLogout", "toggle", "generate"}

\* the call slot p carries during a step: the arriving one, or the one in
\* flight
CallOf(p) ==
    IF pc[p] = "idle" THEN req'[p] ELSE req[p]

\* what C36 says of the guard: a step of a guarded call (one that moves
\* its slot) changes a token, a
\* session or the auto-delete flag only for a browser that carries the
\* flag, and a guarded request from a browser without it goes to the
\* guard's answer, 401, with no token, session or flag changed
GuardHolds ==
    \A p \in SeqProcs :
        /\ (CallOf(p).op \in GuardedOps /\ pc'[p] # pc[p]
              /\ <<tokens, pushed, timers, sessions, created, autoDeleteEnabled>>'
                   # <<tokens, pushed, timers, sessions, created, autoDeleteEnabled>>)
               => isAdmin[CallOf(p).user]
        /\ (pc[p] = "idle" /\ pc'[p] # "idle" /\ req'[p].op \in GuardedOps)
               => ((pc'[p] = "admin_denied") <=> ~isAdmin[req'[p].user])
        /\ (pc[p] = "admin_denied" /\ pc'[p] # pc[p])
               => /\ pc'[p] = "idle"
                  /\ resp'.http = 401 /\ ~resp'.ok
                  /\ resp'.msg = "Admin authentication required"
        /\ (pc'[p] # pc[p] /\ (pc[p] = "admin_denied" \/ pc'[p] = "admin_denied"))
               => UNCHANGED <<tokens, pushed, timers, sessions, created, cookies,
                              autoDeleteEnabled, isAdmin>>

\* C36 as stated: force-logout, token deletion, token issuance and the
\* auto-delete toggle take effect only for a caller whose express session
\* carries the admin flag, the flag is set only by an admin login whose
\* username and password are the configured ones, and for any other caller
\* the call is rejected with no token, session or flag changed.
C36_AsClaimed ==
    [][ /\ GuardHolds
        /\ \A b \in Browsers :
               (~isAdmin[b] /\ isAdmin'[b])
                   => \E p \in SeqProcs :
                          /\ ReturnsFrom(p, "admin_login")
                          /\ req[p].user = b
                          /\ req[p].dev = AdminUsername
                          /\ req[p].sec = AdminPassword ]_vars

\* C36, amended: the same, with the flag set only by an admin login whose
\* password is the configured one and whose username is the configured
\* one once the whitespace around it is removed.
C36_AdminOnly ==
    [][ /\ GuardHolds
        /\ \A b \in Browsers :
               (~isAdmin[b] /\ isAdmin'[b])
                   => \E p \in SeqProcs :
                          /\ ReturnsFrom(p, "admin_login")
                          /\ req[p].user = b
                          /\ Trim(req[p].dev) = AdminUsername
                          /\ req[p].sec = AdminPassword
                          /\ resp'.http = 200 ]_vars

\* a guarded request of a browser without the flag has just been answered
\* 401 while another browser carries the flag and there are an ACTIVE
\* token and an ACTIVE session it could have touched
C36_Witness ==
    /\ resp.http = 401 /\ resp.reason = "DENIED"
    /\ isAdmin["console"] /\ ~isAdmin["visitor"]
    /\ \E t \in TokenIds : tokens[t].status = "ACTIVE"
    /\ \E s \in SessionIds : sessions[s].status = "ACTIVE"


\* C37: a token that is ACTIVE once its expires_at has passed eventually
\* is not ACTIVE any more (EXPIRED, or deleted), with no verify ever
\* attempted on it, provided pending expiry timers and the steps of the
\* periodic cleanup tick are eventually run (weak fairness).
C37_ExpiredTokenLeavesActive ==
    \A t \in TokenIds :
        (tokens[t].status = "ACTIVE" /\ IsPast(tokens[t].expires_at, now))
            ~> (tokens[t].status # "ACTIVE")

\* a token is ACTIVE past its expiry with no timer armed for it, and a
\* cleanup tick holds it in the snapshot it is about to sweep
C37_Witness ==
    \E t \in TokenIds, p \in IntervalProcs :
        /\ tokens[t].status = "ACTIVE" /\ IsPast(tokens[t].expires_at, now)
        /\ \A tm \in timers : tm.id # t
        /\ pc[p] = "cl_tokens" /\ t \in SweepUpdates(snap[p], now)


\* C38: a session that is ACTIVE once its expires_at has passed eventually
\* is EXPIRED or FORCED_LOGOUT, with no validateSession ever called on it,
\* provided the steps of the periodic cleanup tick are eventually run (weak
\* fairness); and a tick whose token sweep is rejected by the store still
\* goes on to its session sweep, which expires every session due by then.
C38_ExpiredSessionLeavesActive ==
    /\ \A s \in SessionIds :
           (sessions[s].status = "ACTIVE" /\ sessions[s].expires_at < now)
               ~> (sessions[s].status \in {"EXPIRED", "FORCED_LOGOUT"})
    /\ \A p \in IntervalProcs : (pc[p] = "cl_tokens") ~> (pc[p] = "cl_sessions")
    /\ \A p \in IntervalProcs : (pc[p] = "cl_sessions") ~> (pc[p] = "idle")
    /\ [][ \A p \in IntervalProcs :
             /\ (pc[p] = "cl_tokens" /\ pc'[p] # pc[p]) => pc'[p] = "cl_sessions"
             /\ (pc[p] = "cl_sessions" /\ pc'[p] # pc[p])
                    => /\ pc'[p] = "idle"
                       /\ \A s \in SessionIds :
                              (sessions[s].status = "ACTIVE"
                                 /\ sessions[s].expires_at < req[p].at)
                                  => sessions'[s].status = "EXPIRED" ]_vars

\* the token sweep of a tick has just been rejected, the tick stands at its
\* session sweep, and a session is ACTIVE past its expiry
C38_Witness ==
    \E p \in IntervalProcs, s \in SessionIds :
        /\ pc[p] = "cl_sessions" /\ resp.fault
        /\ sessions[s].status = "ACTIVE" /\ sessions[s].expires_at < req[p].at


\* C39: a verifyToken call changes at most one token, and that token is one
\* its query returned for the digest of the device and token presented and
\* whose device is the one presented; it is the token the call reports,
\* set USED by a valid call and EXPIRED by one that found it past its
\* expiry; a call that returns TOKEN_NOT_FOUND or TOKEN_INACTIVE changes
\* no token.
C39_VerifyFrame ==
    [][ \A p \in SeqProcs :
          ReturnsFrom(p, "verify_check")
              => LET changed == {t \in TokenIds : tokens'[t] # tokens[t]}
                 IN /\ Cardinality(changed) <= 1
                    /\ \A t \in changed :
                           /\ t \in snap[p].ids
                           /\ snap[p].tok[t].token_hash
                                  = generateTokenHash(req[p].dev, req[p].sec)
                           /\ snap[p].tok[t].device_id = req[p].dev
                           /\ resp'.id = t
                           /\ \/ resp'.reason = "VALID" /\ tokens'[t].status = "USED"
                              \/ resp'.reason = "TOKEN_EXPIRED"
                                   /\ tokens'[t].status = "EXPIRED"
                    /\ resp'.reason \in {"TOKEN_NOT_FOUND", "TOKEN_INACTIVE"}
                           => tokens' = tokens ]_vars

\* two tokens of one device carry the same digest, one of them has just
\* been set USED by a valid verify and the other is still ACTIVE, and so is
\* no other token
C39_Witness ==
    /\ resp.reason = "VALID"
    /\ \E t, r \in TokenIds :
           /\ t # r
           /\ tokens[t].token_hash = tokens[r].token_hash
           /\ tokens[t].device_id = tokens[r].device_id
           /\ tokens[t].status = "USED" /\ resp.id = t
           /\ tokens[r].status = "ACTIVE"

====
